---------------------------- MODULE Spec2Model ----------------------------
(***************************************************************************)
(* Model of TelegramService (src/src/telegram/telegram.service.ts), its    *)
(* storage collaborator SupabaseService and the webhook front door.        *)
(*                                                                         *)
(* One inbound update is one entry of `ev`.  A handler is a sequence of    *)
(* steps, one per `await` of the code: the code between two awaits runs    *)
(* atomically (single-threaded event loop), and the handlers of different  *)
(* updates interleave at the awaits.                                       *)
(***************************************************************************)
EXTENDS Integers, Sequences, FiniteSets, TLC

VARIABLES
    env,             \* the environment read by ConfigService.get
    cfg,             \* readonly fields assigned by the constructor
    warnings,        \* warnings logged by the constructor
    bot,             \* this.bot: Null or the Telegraf handle
    life,            \* position of onModuleInit / stop and the admin calls made
    ev,              \* inbound updates and the position of their handlers
    signedUrlCache,  \* this.signedUrlCache
    clock,           \* Date.now(), milliseconds
    ticks,           \* number of times the clock has advanced
    fetches          \* number of signed URLs issued by the storage collaborator

vars == <<env, cfg, warnings, bot, life, ev, signedUrlCache, clock, ticks, fetches>>

---------------------------------------------------------------------------
(* Bounds of the model *)

MaxEvents == 2
MaxTicks  == 1
MaxInits  == 2

(* Program constants *)

SAFETY_MARGIN_MS   == 15000
EXPIRES_IN_SECONDS == 3600
MS_PER_SECOND      == 1000

\* Numbers that stand for the null of parsePositiveInt and for Infinity, which
\* no positive integer equals
NullInt  == 0
Infinity == -1

---------------------------------------------------------------------------
(* JavaScript values: null, undefined and strings *)

Null      == "<null>"
Undefined == "<undefined>"

\* JS truthiness of a string | null | undefined value
Truthy(v) == v \notin {Null, Undefined, ""}

\* a ?? b
Nullish(v) == v \in {Null, Undefined}
Coalesce(a, b) == IF Nullish(a) THEN b ELSE a

\* template-literal conversion `${v}`
TemplateString(v) == IF v = Undefined THEN "undefined" ELSE IF v = Null THEN "null" ELSE v

\* String.prototype.toLowerCase on the strings the model uses
ToLowerCase(s) ==
    CASE s = "TRUE"  -> "true"
      [] s = "True"  -> "true"
      [] s = "FALSE" -> "false"
      [] s = "False" -> "false"
      [] OTHER       -> s

---------------------------------------------------------------------------
(* Content catalog: this.videoOptions, in insertion order *)

VideoOptionKeys ==
    << "exness_referral", "create_cent_account", "claim_bot_bhub", "learn_vps",
       "buy_vps", "connect_vps", "setup_bot_vps", "clone_bot_one_account",
       "copy_bot_settings_balances" >>

OwnKeys == { VideoOptionKeys[i] : i \in DOMAIN VideoOptionKeys }

Descriptor(l, c, p) == [tag |-> "descriptor", label |-> l, caption |-> c, storagePath |-> p]

videoOptions ==
    [ k \in OwnKeys |->
        CASE k = "exness_referral" ->
               Descriptor("Create an Exness account using Varvannareach referral.",
                          "Steps to sign up with the referral link.",
                          "videos/exness-referral.mp4")
          [] k = "create_cent_account" ->
               Descriptor("Create a Standard Cent account for bot setup.",
                          "Guide to creating the correct Exness account type.",
                          "videos/create-cent-account.mp4")
          [] k = "claim_bot_bhub" ->
               Descriptor("Submit or claim the bot from Bhub.",
                          "How to claim your bot entitlement via Bhub.",
                          "videos/claim-bot-bhub.mp4")
          [] k = "learn_vps" ->
               Descriptor("Learn what a VPS is and how it works.",
                          "Intro to VPS concepts and why they matter.",
                          "videos/learn-vps.mp4")
          [] k = "buy_vps" ->
               Descriptor("Learn how to buy a VPS from the website.",
                          "Walkthrough for purchasing a VPS.",
                          "videos/buy-vps.mp4")
          [] k = "connect_vps" ->
               Descriptor("Learn how to connect to a remote VPS (phone, iPad, computer, Mac).",
                          "Connection steps for each device type.",
                          "videos/connect-vps.mp4")
          [] k = "setup_bot_vps" ->
               Descriptor("Learn how to set up the bot on the VPS.",
                          "Full deployment guide on your VPS.",
                          "videos/setup-bot-vps.mp4")
          [] k = "clone_bot_one_account" ->
               Descriptor("Learn how to clone the bot to run on one account.",
                          "Cloning and running the bot for a single account.",
                          "videos/clone-bot-one-account.mp4")
          [] OTHER ->
               Descriptor("Learn how to copy bot settings for balances like 5K, 10K, and higher.",
                          "Recommended settings across common balance tiers.",
                          "videos/copy-bot-settings-balances.mp4") ]

\* Property names every object literal inherits from Object.prototype
ObjectPrototypeKeys ==
    { "constructor", "toString", "toLocaleString", "valueOf", "hasOwnProperty",
      "isPrototypeOf", "propertyIsEnumerable", "__proto__" }

\* The value read through the prototype chain: an object (a function, or
\* Object.prototype itself) that is truthy and has none of the descriptor fields
InheritedValue ==
    [tag |-> "inherited", label |-> Undefined, caption |-> Undefined, storagePath |-> Undefined]

NullOption ==
    [tag |-> "null", label |-> Undefined, caption |-> Undefined, storagePath |-> Undefined]

\* this.menuMarkup: one callback button per catalog entry, in catalog order
menuMarkup ==
    [ i \in DOMAIN VideoOptionKeys |->
        [text |-> videoOptions[VideoOptionKeys[i]].label, callback_data |-> VideoOptionKeys[i]] ]

\* `value in this.videoOptions`: own properties and inherited ones
isVideoOptionKey(value) == value \in OwnKeys \cup ObjectPrototypeKeys

\* this.videoOptions[data]
GetProperty(data) ==
    IF data \in OwnKeys THEN videoOptions[data]
    ELSE IF data \in ObjectPrototypeKeys THEN InheritedValue
    ELSE NullOption

\* const option = data && this.isVideoOptionKey(data) ? this.videoOptions[data] : null
LookupOption(data) ==
    IF Truthy(data) /\ isVideoOptionKey(data) THEN GetProperty(data) ELSE NullOption

---------------------------------------------------------------------------
(* Configuration: ConfigService.get and the constructor *)

\* this.configService.get<string>(key): the value, or undefined
Get(e, key) == e[key]

\* the value resolveWithAlias returns
resolveWithAlias(e, primaryKey, aliasKey) ==
    LET primary == Coalesce(Get(e, primaryKey), Null)
        alias   == Coalesce(Get(e, aliasKey), Null)
    IN  Coalesce(primary, alias)

\* the message resolveWithAlias logs, if any
resolveWithAliasLog(e, primaryKey, aliasKey) ==
    LET primary == Coalesce(Get(e, primaryKey), Null)
        alias   == Coalesce(Get(e, aliasKey), Null)
    IN  IF Truthy(primary) /\ Truthy(alias) /\ primary # alias
        THEN {<<"warn", primaryKey, "both set">>}
        ELSE IF ~Truthy(primary) /\ Truthy(alias)
        THEN {<<"log", primaryKey, "fallback to alias">>}
        ELSE {}

\* const pollingPreference = get('TELEGRAM_USE_POLLING')?.toLowerCase() ?? null
pollingPreference(e) ==
    LET raw == Get(e, "TELEGRAM_USE_POLLING")
    IN  IF Nullish(raw) THEN Null ELSE ToLowerCase(raw)

\* Mutant: the polling override is ignored
useLongPolling_IgnoresOverride(pref, webhookUrl) == ~Truthy(webhookUrl)

\* this.useLongPolling = pollingPreference === 'true' || !this.webhookUrl
useLongPolling(pref, webhookUrl) == pref = "true" \/ ~Truthy(webhookUrl)

\* the constructor's warning: !this.webhookUrl && pollingPreference === 'false'
PollingFallbackWarning(pref, webhookUrl) == ~Truthy(webhookUrl) /\ pref = "false"

\* Number.parseInt(value, 10) on the strings the model uses; finite is FALSE
\* for NaN
ParseInt(value) ==
    CASE value = "1"  -> [finite |-> TRUE, n |-> 1]
      [] value = "2"  -> [finite |-> TRUE, n |-> 2]
      [] value = "0"  -> [finite |-> TRUE, n |-> 0]
      [] value = "-1" -> [finite |-> TRUE, n |-> -1]
      [] OTHER        -> [finite |-> FALSE, n |-> 0]

\* parsePositiveInt(value): a positive integer, or null (NullInt)
parsePositiveInt(value) ==
    IF ~Truthy(value) THEN NullInt
    ELSE LET parsed == ParseInt(value)
         IN  IF parsed.finite /\ parsed.n > 0 THEN parsed.n ELSE NullInt

\* this.handlerTimeoutMs = parsePositiveInt(get('TELEGRAM_HANDLER_TIMEOUT_MS')) ?? Infinity
handlerTimeoutMs(e) ==
    LET parsed == parsePositiveInt(Get(e, "TELEGRAM_HANDLER_TIMEOUT_MS"))
    IN  IF parsed = NullInt THEN Infinity ELSE parsed

\* the readonly fields the constructor assigns
Constructor(e) ==
    LET url == resolveWithAlias(e, "WEBHOOK_URL", "TELEGRAM_WEBHOOK_URL")
    IN  [ supabaseBucket |-> Coalesce(Get(e, "SUPABASE_BUCKET"), Null),
          webhookUrl     |-> url,
          useLongPolling |-> useLongPolling(pollingPreference(e), url),
          webhookSecret  |-> Coalesce(Get(e, "TELEGRAM_WEBHOOK_SECRET"), Null),
          handlerTimeoutMs |-> handlerTimeoutMs(e) ]

\* what the constructor logs
ConstructorWarnings(e) ==
    LET url == resolveWithAlias(e, "WEBHOOK_URL", "TELEGRAM_WEBHOOK_URL")
    IN  resolveWithAliasLog(e, "WEBHOOK_URL", "TELEGRAM_WEBHOOK_URL")
        \cup (IF PollingFallbackWarning(pollingPreference(e), url)
              THEN {<<"warn", "WEBHOOK_URL", "missing, polling enabled">>} ELSE {})

EnvKeys ==
    { "BOT_TOKEN", "TELEGRAM_BOT_TOKEN", "WEBHOOK_URL", "TELEGRAM_WEBHOOK_URL",
      "TELEGRAM_USE_POLLING", "TELEGRAM_WEBHOOK_SECRET", "SUPABASE_BUCKET", "SUPABASE_CLIENT",
      "TELEGRAM_HANDLER_TIMEOUT_MS" }

\* An environment: the values the service and its collaborator read, the
\* handler timeout unset.
\* SUPABASE_CLIENT stands for SUPABASE_URL and SUPABASE_ANON_KEY both being set.
Env(token, alias, url, urlAlias, polling, secret, bucket, client) ==
    [ k \in EnvKeys |->
        CASE k = "BOT_TOKEN"               -> token
          [] k = "TELEGRAM_BOT_TOKEN"      -> alias
          [] k = "WEBHOOK_URL"             -> url
          [] k = "TELEGRAM_WEBHOOK_URL"    -> urlAlias
          [] k = "TELEGRAM_USE_POLLING"    -> polling
          [] k = "TELEGRAM_WEBHOOK_SECRET" -> secret
          [] k = "SUPABASE_BUCKET"         -> bucket
          [] k = "SUPABASE_CLIENT"         -> client
          [] OTHER                         -> Undefined ]

\* The environment e with TELEGRAM_HANDLER_TIMEOUT_MS set to t
EnvWithTimeout(e, t) == [e EXCEPT !["TELEGRAM_HANDLER_TIMEOUT_MS"] = t]

---------------------------------------------------------------------------
(* Messages *)

TXT_UNKNOWN       == "Unknown option"
TXT_ANSWER        == "Sending video..."
TXT_STATUS        == "Video is sending..."
TXT_NOT_AVAILABLE == "Video will be delivered soon. (Supabase storage not configured or file not found.)"
TXT_EDIT_PENDING  == "Video will be sent once available."
TXT_FAILED        == "Sorry, failed to send the video. Please try again in a moment."
TXT_EDIT_FAILED   == "Failed to send video. Please try again."
TXT_INTRO         == "Hi! Choose a support topic below and I will send you the matching guide."

\* `Video sent: ${option.label}`
SuccessText(option) == "Video sent: " \o TemplateString(option.label)

---------------------------------------------------------------------------
(* URLs, effects and updates *)

\* n numbers the signed URLs in the order of their issue; issuedAt is the
\* moment the storage service signed the URL, from which its validity runs
NoUrl == [kind |-> "none", path |-> "", n |-> 0, issuedAt |-> 0]
SignedUrl(path, k, t) == [kind |-> "signed", path |-> path, n |-> k, issuedAt |-> t]
PublicUrl(path)       == [kind |-> "public", path |-> path, n |-> 0, issuedAt |-> 0]

NoMessage == [chat |-> 0, message_id |-> 0]

\* One call made on behalf of an update, with its outcome
Eff(op, text, ok) ==
    [op |-> op, text |-> text, url |-> NoUrl, caption |-> "", chat |-> 0, msg |-> 0, ok |-> ok]

EffVideo(url, caption, ok) ==
    [op |-> "replyWithVideo", text |-> "", url |-> url, caption |-> caption,
     chat |-> 0, msg |-> 0, ok |-> ok]

EffEdit(chatId, messageId, text, ok) ==
    [op |-> "editMessageText", text |-> text, url |-> NoUrl, caption |-> "",
     chat |-> chatId, msg |-> messageId, ok |-> ok]

EffStorage(op, url) ==
    [op |-> op, text |-> "", url |-> url, caption |-> "", chat |-> 0, msg |-> 0,
     ok |-> url.kind # "none"]

\* `cached` when the cache has no entry for the key
NoEntry == [url |-> NoUrl, expiresAt |-> 0]

Events == 1..MaxEvents

NoEvent ==
    [ via |-> "none", kind |-> "none", data |-> Undefined, hdr |-> Undefined,
      pc |-> "none", option |-> NullOption, statusMessage |-> NoMessage,
      now |-> 0, cached |-> NoEntry, videoUrl |-> NoUrl, effects |-> << >>,
      response |-> "none", started |-> 0, timedOut |-> FALSE ]

---------------------------------------------------------------------------
(* Initial state: the service as the constructor leaves it *)

\* One call of startup or shutdown to the transport, with its arguments:
\* drop for drop_pending_updates / dropPendingUpdates, url, secret and allowed
\* for the arguments of setWebhook
Call(by, op, ok) ==
    [by |-> by, op |-> op, ok |-> ok, drop |-> FALSE, url |-> Undefined,
     secret |-> Undefined, allowed |-> {}]

\* bot.telegram.deleteWebhook({ drop_pending_updates: true })
CallDeleteWebhook(by, ok) == [Call(by, "deleteWebhook", ok) EXCEPT !.drop = TRUE]

\* bot.launch({ dropPendingUpdates: true })
CallLaunch(ok) == [Call("onModuleInit", "launch", ok) EXCEPT !.drop = TRUE]

\* bot.telegram.setWebhook(this.webhookUrl, { secret_token: this.webhookSecret ?? undefined,
\*                                            allowed_updates: ['message', 'callback_query'] })
CallSetWebhook(ok) ==
    [Call("onModuleInit", "setWebhook", ok) EXCEPT
        !.url = cfg.webhookUrl,
        !.secret = Coalesce(cfg.webhookSecret, Undefined),
        !.allowed = {"message", "callback_query"}]

\* init, stop: the position of onModuleInit and of stop; calls: their calls to
\* the transport; handlers: the number of times registerHandlers ran; polling,
\* webhook: the polling loop of this process runs, the webhook this process
\* registered stands; inits: the number of calls of onModuleInit
NoLife ==
    [init |-> "idle", stop |-> "idle", calls |-> << >>, handlers |-> 0,
     polling |-> FALSE, webhook |-> FALSE, inits |-> 0]

InitWith(Envs) ==
    /\ env \in Envs
    /\ cfg = Constructor(env)
    /\ warnings = ConstructorWarnings(env)
    /\ bot = Null
    /\ life = NoLife
    /\ ev = [e \in Events |-> NoEvent]
    /\ signedUrlCache = << >>
    /\ clock = 0
    /\ ticks = 0
    /\ fetches = 0

---------------------------------------------------------------------------
(* Startup and shutdown *)

\* Mutant: onModuleInit without its guard `if (this.bot) return`
OnModuleInit_NoGuard ==
    /\ life.inits < MaxInits
    /\ UNCHANGED <<env, cfg, warnings, ev, signedUrlCache, clock, ticks, fetches>>
    /\ IF ~Truthy(resolveWithAlias(env, "BOT_TOKEN", "TELEGRAM_BOT_TOKEN"))
       THEN /\ life' = [life EXCEPT !.inits = @ + 1, !.init = "threw"]
            /\ UNCHANGED bot
       ELSE /\ bot' = "Telegraf"
            /\ life' = [life EXCEPT
                 !.inits = @ + 1,
                 !.handlers = @ + 1,
                 !.init = IF cfg.useLongPolling THEN "poll_deleteWebhook"
                          ELSE IF ~Truthy(cfg.webhookUrl) THEN "done"
                          ELSE "wh_deleteWebhook"]

\* onModuleInit up to its first await: the guard on this.bot, the token, the
\* bot handle with its bot.catch handler, registerHandlers, and the mode
OnModuleInit ==
    /\ life.inits < MaxInits
    /\ UNCHANGED <<env, cfg, warnings, ev, signedUrlCache, clock, ticks, fetches>>
    /\ IF bot # Null
       THEN /\ life' = [life EXCEPT !.inits = @ + 1]
            /\ UNCHANGED bot
       ELSE IF ~Truthy(resolveWithAlias(env, "BOT_TOKEN", "TELEGRAM_BOT_TOKEN"))
       THEN /\ life' = [life EXCEPT !.inits = @ + 1, !.init = "threw"]
            /\ UNCHANGED bot
       ELSE /\ bot' = "Telegraf"
            /\ life' = [life EXCEPT
                 !.inits = @ + 1,
                 !.handlers = @ + 1,
                 !.init = IF cfg.useLongPolling THEN "poll_deleteWebhook"
                          ELSE IF ~Truthy(cfg.webhookUrl) THEN "done"
                          ELSE "wh_deleteWebhook"]

\* The call of onModuleInit the framework makes when the module is initialised
Startup == life.inits = 0 /\ OnModuleInit

\* Mutant: configureWebhook registers the new target before it removes the
\* previous registration
InitDeleteWebhook_SetsFirst(ok) ==
    /\ life.init \in {"poll_deleteWebhook", "wh_deleteWebhook"}
    /\ life' = [life EXCEPT
         !.calls = IF life.init = "wh_deleteWebhook"
                   THEN @ \o << CallSetWebhook(TRUE), CallDeleteWebhook("onModuleInit", ok) >>
                   ELSE Append(@, CallDeleteWebhook("onModuleInit", ok)),
         !.init = IF ~ok THEN "threw"
                  ELSE IF life.init = "poll_deleteWebhook" THEN "poll_launch"
                  ELSE "done"]
    /\ UNCHANGED <<env, cfg, warnings, bot, ev, signedUrlCache, clock, ticks, fetches>>

\* await bot.telegram.deleteWebhook({drop_pending_updates: true}) in
\* startLongPolling and in configureWebhook
InitDeleteWebhook(ok) ==
    /\ life.init \in {"poll_deleteWebhook", "wh_deleteWebhook"}
    /\ life' = [life EXCEPT
         !.calls = Append(@, CallDeleteWebhook("onModuleInit", ok)),
         !.init = IF ~ok THEN "threw"
                  ELSE IF life.init = "poll_deleteWebhook" THEN "poll_launch"
                  ELSE "wh_setWebhook"]
    /\ UNCHANGED <<env, cfg, warnings, bot, ev, signedUrlCache, clock, ticks, fetches>>

\* Mutant: the polling loop starts on the updates that were pending
InitLaunch_KeepsPending(ok) ==
    /\ life.init = "poll_launch"
    /\ life' = [life EXCEPT
         !.calls = Append(@, [CallLaunch(ok) EXCEPT !.drop = FALSE]),
         !.polling = ok,
         !.init = IF ok THEN "done" ELSE "threw"]
    /\ UNCHANGED <<env, cfg, warnings, bot, ev, signedUrlCache, clock, ticks, fetches>>

\* await bot.launch({dropPendingUpdates: true})
InitLaunch(ok) ==
    /\ life.init = "poll_launch"
    /\ life' = [life EXCEPT
         !.calls = Append(@, CallLaunch(ok)),
         !.polling = ok,
         !.init = IF ok THEN "done" ELSE "threw"]
    /\ UNCHANGED <<env, cfg, warnings, bot, ev, signedUrlCache, clock, ticks, fetches>>

\* await bot.telegram.setWebhook(this.webhookUrl, {secret_token, allowed_updates})
InitSetWebhook(ok) ==
    /\ life.init = "wh_setWebhook"
    /\ life' = [life EXCEPT
         !.calls = Append(@, CallSetWebhook(ok)),
         !.webhook = IF ok THEN TRUE ELSE @,
         !.init = IF ok THEN "done" ELSE "threw"]
    /\ UNCHANGED <<env, cfg, warnings, bot, ev, signedUrlCache, clock, ticks, fetches>>

\* stop() up to its first await, called by onModuleDestroy.  bot.stop() ends
\* the polling loop; Telegraf throws 'Bot is not running!' when none runs
Stop ==
    /\ life.stop = "idle"
    /\ life' = IF bot = Null THEN [life EXCEPT !.stop = "done"]
               ELSE IF cfg.useLongPolling
               THEN [life EXCEPT !.calls = Append(@, Call("stop", "stop", life.polling)),
                                 !.polling = FALSE,
                                 !.stop = IF life.polling THEN "done" ELSE "threw"]
               ELSE [life EXCEPT !.stop = "wh_deleteWebhook"]
    /\ UNCHANGED <<env, cfg, warnings, bot, ev, signedUrlCache, clock, ticks, fetches>>

\* await this.bot.telegram.deleteWebhook({drop_pending_updates: true}) in stop
StopDeleteWebhook(ok) ==
    /\ life.stop = "wh_deleteWebhook"
    /\ life' = [life EXCEPT
         !.calls = Append(@, CallDeleteWebhook("stop", ok)),
         !.webhook = IF ok THEN FALSE ELSE @,
         !.stop = IF ok THEN "done" ELSE "threw"]
    /\ UNCHANGED <<env, cfg, warnings, bot, ev, signedUrlCache, clock, ticks, fetches>>

\* Date.now() advances
Tick(d) ==
    /\ ticks < MaxTicks
    /\ clock' = clock + d
    /\ ticks' = ticks + 1
    /\ UNCHANGED <<env, cfg, warnings, bot, life, ev, signedUrlCache, fetches>>

---------------------------------------------------------------------------
(* Inbound updates *)

Used == { e \in Events : ev[e].pc # "none" }
Free == { e \in Events : ev[e].pc = "none" /\ \A f \in Events : f < e => ev[f].pc # "none" }

\* The handler has ended: handleUpdate resolves, and handleWebhookUpdate
\* returns {ok: true} to a webhook caller
End(r, pcEnd) ==
    [r EXCEPT !.pc = pcEnd,
              !.response = IF r.via = "webhook" THEN "ok_true" ELSE r.response]

\* Number of messages sent so far to the chat of an update
Sent(effects) ==
    Cardinality({ i \in DOMAIN effects :
                    effects[i].ok /\ effects[i].op \in {"reply", "replyWithVideo"} })

\* bot.handleUpdate(update) up to the first await of the handler that matches:
\* bot.start / bot.help for the two commands, bot.on('callback_query') with the
\* catalog lookup of lines 211-217, and no handler for anything else
Dispatch(via, hdr, u) ==
    LET r == [NoEvent EXCEPT !.via = via, !.hdr = hdr, !.kind = u.kind, !.data = u.data,
                             !.response = IF via = "webhook" THEN "pending" ELSE "none",
                             !.started = IF cfg.handlerTimeoutMs = Infinity THEN 0 ELSE clock]
    IN  IF u.kind = "callback_query"
        THEN LET option == LookupOption(u.data)
             IN  [r EXCEPT !.option = option,
                           !.pc = IF option.tag = "null" THEN "answerUnknown"
                                  ELSE "answerSending"]
        ELSE IF u.kind = "command"
        THEN [r EXCEPT !.pc = "replyIntro"]
        ELSE End(r, "done")

\* The polling loop hands an update to bot.handleUpdate
PollUpdate(u) ==
    /\ life.polling
    /\ bot # Null
    /\ \E e \in Free : ev' = [ev EXCEPT ![e] = Dispatch("polling", Undefined, u)]
    /\ UNCHANGED <<env, cfg, warnings, bot, life, signedUrlCache, clock, ticks, fetches>>

\* Mutant: a request without the header passes the check
GateRejects_MissingHeaderPasses(secret, secretFromHeader) ==
    Truthy(secret) /\ Truthy(secretFromHeader) /\ secret # secretFromHeader

\* this.webhookSecret && this.webhookSecret !== secretFromHeader
GateRejects(secret, secretFromHeader) == Truthy(secret) /\ secret # secretFromHeader

\* Mutant: the rejection is logged and answered {ok: false}, but the update
\* is handed to the bot all the same
HandleWebhookUpdate_NoReturn(hdr, u) ==
    /\ \E e \in Free :
         ev' = [ev EXCEPT ![e] =
                  IF bot = Null
                  THEN [NoEvent EXCEPT !.via = "webhook", !.hdr = hdr, !.kind = u.kind,
                                       !.data = u.data, !.pc = "uninitialized",
                                       !.response = "ok_false"]
                  ELSE IF GateRejects(cfg.webhookSecret, hdr)
                  THEN [Dispatch("webhook", hdr, u) EXCEPT !.response = "ok_false"]
                  ELSE Dispatch("webhook", hdr, u)]
    /\ UNCHANGED <<env, cfg, warnings, bot, life, signedUrlCache, clock, ticks, fetches>>

\* Mutant: handleWebhookUpdate hands nothing to the bot in Polling mode
HandleWebhookUpdate_WebhookModeOnly(hdr, u) ==
    /\ \E e \in Free :
         ev' = [ev EXCEPT ![e] =
                  IF GateRejects(cfg.webhookSecret, hdr)
                  THEN [NoEvent EXCEPT !.via = "webhook", !.hdr = hdr, !.kind = u.kind,
                                       !.data = u.data, !.pc = "rejected",
                                       !.response = "ok_false"]
                  ELSE IF bot = Null \/ cfg.useLongPolling
                  THEN [NoEvent EXCEPT !.via = "webhook", !.hdr = hdr, !.kind = u.kind,
                                       !.data = u.data, !.pc = "uninitialized",
                                       !.response = "ok_false"]
                  ELSE Dispatch("webhook", hdr, u)]
    /\ UNCHANGED <<env, cfg, warnings, bot, life, signedUrlCache, clock, ticks, fetches>>

\* handleWebhookUpdate(update, secretFromHeader) up to bot.handleUpdate
HandleWebhookUpdate(hdr, u) ==
    /\ \E e \in Free :
         ev' = [ev EXCEPT ![e] =
                  IF GateRejects(cfg.webhookSecret, hdr)
                  THEN [NoEvent EXCEPT !.via = "webhook", !.hdr = hdr, !.kind = u.kind,
                                       !.data = u.data, !.pc = "rejected",
                                       !.response = "ok_false"]
                  ELSE IF bot = Null
                  THEN [NoEvent EXCEPT !.via = "webhook", !.hdr = hdr, !.kind = u.kind,
                                       !.data = u.data, !.pc = "uninitialized",
                                       !.response = "ok_false"]
                  ELSE Dispatch("webhook", hdr, u)]
    /\ UNCHANGED <<env, cfg, warnings, bot, life, signedUrlCache, clock, ticks, fetches>>

---------------------------------------------------------------------------
(* Handlers registered by registerHandlers, one action per await *)

Others == <<env, cfg, warnings, bot, life, signedUrlCache, clock, ticks, fetches>>

\* bot.start / bot.help: ctx.reply(this.introMessage, this.menuMarkup)
ReplyIntro(e, ok) ==
    /\ ev[e].pc = "replyIntro"
    /\ ev' = [ev EXCEPT ![e] =
                End([@ EXCEPT !.effects = Append(@, Eff("reply", TXT_INTRO, ok))],
                    IF ok THEN "done" ELSE "caught")]
    /\ UNCHANGED Others

\* await ctx.answerCbQuery('Unknown option'); return
AnswerUnknown(e, ok) ==
    /\ ev[e].pc = "answerUnknown"
    /\ ev' = [ev EXCEPT ![e] =
                End([@ EXCEPT !.effects = Append(@, Eff("answerCbQuery", TXT_UNKNOWN, ok))],
                    IF ok THEN "done" ELSE "caught")]
    /\ UNCHANGED Others

\* Mutant: an error of the acknowledgment is caught by nobody and takes the
\* process down, with the polling loop and every update in flight
AnswerSending_Uncaught(e, ok) ==
    /\ ev[e].pc = "answerSending"
    /\ ev' = [f \in Events |->
                IF f = e
                THEN LET r == [ev[e] EXCEPT !.effects = Append(@, Eff("answerCbQuery", TXT_ANSWER, ok))]
                     IN  IF ok THEN [r EXCEPT !.pc = "replyStatus"] ELSE End(r, "caught")
                ELSE IF ~ok /\ ev[f].pc \notin {"none", "done", "caught", "rejected", "uninitialized"}
                THEN [ev[f] EXCEPT !.pc = "caught"]
                ELSE ev[f]]
    /\ life' = IF ok THEN life ELSE [life EXCEPT !.polling = FALSE]
    /\ UNCHANGED <<env, cfg, warnings, bot, signedUrlCache, clock, ticks, fetches>>

\* Mutant: the handler of a matched callback goes on to the provisional
\* message without acknowledging the callback
AnswerSending_Skipped(e, ok) ==
    /\ ev[e].pc = "answerSending"
    /\ ev' = [ev EXCEPT ![e] = IF ok THEN [@ EXCEPT !.pc = "replyStatus"] ELSE End(@, "caught")]
    /\ UNCHANGED Others

\* await ctx.answerCbQuery('Sending video...')
AnswerSending(e, ok) ==
    /\ ev[e].pc = "answerSending"
    /\ ev' = [ev EXCEPT ![e] =
                LET r == [@ EXCEPT !.effects = Append(@, Eff("answerCbQuery", TXT_ANSWER, ok))]
                IN  IF ok THEN [r EXCEPT !.pc = "replyStatus"] ELSE End(r, "caught")]
    /\ UNCHANGED Others

\* const statusMessage = await ctx.reply('Video is sending...')
ReplyStatus(e, ok) ==
    /\ ev[e].pc = "replyStatus"
    /\ ev' = [ev EXCEPT ![e] =
                LET r == [@ EXCEPT !.effects = Append(@, Eff("reply", TXT_STATUS, ok))]
                IN  IF ok
                    THEN [r EXCEPT !.statusMessage = [chat |-> e, message_id |-> Sent(r.effects)],
                                   !.pc = "getVideoUrl"]
                    ELSE End(r, "caught")]
    /\ UNCHANGED Others

---------------------------------------------------------------------------
(* URL resolver: getVideoUrl and SupabaseService *)

\* `${bucket}:${option.storagePath}`
CacheKey(bucket, option) == <<bucket, TemplateString(option.storagePath)>>

\* this.signedUrlCache.get(cacheKey)
CacheGet(key) == IF key \in DOMAIN signedUrlCache THEN signedUrlCache[key] ELSE NoEntry

\* Mutant: the cache hit test without the safety margin
CacheValid_NoMargin(cached, now) == cached # NoEntry /\ cached.expiresAt > now

\* cached && cached.expiresAt > now + 15_000
CacheValid(cached, now) == cached # NoEntry /\ cached.expiresAt > now + SAFETY_MARGIN_MS

\* Mutant: the expiry is counted from the return of the request, not from the
\* Date.now() read before it
ExpiresAt_FromReturn(now) == clock + EXPIRES_IN_SECONDS * MS_PER_SECOND

\* const expiresAt = now + expiresInSeconds * 1000
ExpiresAt(now) == now + EXPIRES_IN_SECONDS * MS_PER_SECOND

\* Mutant: a write never replaces an entry that expires later
CacheSet_KeepsLatestExpiry(cache, key, url, expiresAt) ==
    [ k \in DOMAIN cache \cup {key} |->
        IF k = key /\ (key \notin DOMAIN cache \/ cache[key].expiresAt <= expiresAt)
        THEN [url |-> url, expiresAt |-> expiresAt]
        ELSE cache[k] ]

\* this.signedUrlCache.set(cacheKey, {url, expiresAt})
CacheSet(cache, key, url, expiresAt) ==
    [ k \in DOMAIN cache \cup {key} |->
        IF k = key THEN [url |-> url, expiresAt |-> expiresAt] ELSE cache[k] ]

\* SupabaseService.client is created iff SUPABASE_URL and SUPABASE_ANON_KEY are set
HasClient == Truthy(env["SUPABASE_CLIENT"])

\* SupabaseService.getSignedUrl: null without a client or on an error of
\* createSignedUrl, else the signed URL (a new one for every request), signed
\* by the storage service at the moment t
getSignedUrl(path, outcome, k, t) ==
    IF ~HasClient THEN NoUrl
    ELSE IF outcome = "url" THEN SignedUrl(path, k, t)
    ELSE NoUrl

\* The moments at which the storage service may have signed a URL requested at
\* `now`: not before the request, not after its return
IssueMoments(now) == {now, clock}

\* SupabaseService.getPublicUrl: null without a client, else data?.publicUrl ?? null
getPublicUrl(path, produced) ==
    IF ~HasClient THEN NoUrl
    ELSE IF produced THEN PublicUrl(path)
    ELSE NoUrl

\* Mutant: getVideoUrl without the check of the bucket
GetVideoUrlStart_NoBucketCheck(e) ==
    /\ ev[e].pc = "getVideoUrl"
    /\ ev' = [ev EXCEPT ![e] =
                LET r      == [@ EXCEPT !.effects = Append(@, Eff("getVideoUrl", "", TRUE))]
                    cached == CacheGet(CacheKey(cfg.supabaseBucket, r.option))
                IN  IF CacheValid(cached, clock)
                    THEN [r EXCEPT !.cached = cached, !.now = clock,
                                   !.videoUrl = cached.url, !.pc = "sendChatAction"]
                    ELSE [r EXCEPT !.cached = cached, !.now = clock, !.pc = "getSignedUrl"]]
    /\ UNCHANGED <<env, cfg, warnings, bot, life, signedUrlCache, clock, ticks, fetches>>

\* getVideoUrl up to its await: the bucket check, the cache read and Date.now()
GetVideoUrlStart(e) ==
    /\ ev[e].pc = "getVideoUrl"
    /\ ev' = [ev EXCEPT ![e] =
                LET r      == [@ EXCEPT !.effects = Append(@, Eff("getVideoUrl", "", TRUE))]
                    bucket == cfg.supabaseBucket
                    cached == CacheGet(CacheKey(bucket, r.option))
                IN  IF ~Truthy(bucket)
                    THEN [r EXCEPT !.videoUrl = NoUrl, !.pc = "replyUnavailable"]
                    ELSE IF CacheValid(cached, clock)
                    THEN [r EXCEPT !.cached = cached, !.now = clock,
                                   !.videoUrl = cached.url, !.pc = "sendChatAction"]
                    ELSE [r EXCEPT !.cached = cached, !.now = clock, !.pc = "getSignedUrl"]]
    /\ UNCHANGED Others

\* Mutant: getVideoUrl without the public-URL fallback
GetSignedUrlReturns_NoFallback(e, outcome, produced, t) ==
    /\ ev[e].pc = "getSignedUrl"
    /\ outcome \in {"url", "null", "throw"}
    /\ ~HasClient => outcome = "null" /\ ~produced
    /\ outcome # "null" => ~produced
    /\ t \in IssueMoments(ev[e].now)
    /\ LET r    == ev[e]
           path == TemplateString(r.option.storagePath)
           key  == CacheKey(cfg.supabaseBucket, r.option)
           url  == getSignedUrl(path, outcome, fetches + 1, t)
       IN  IF outcome = "throw"
           THEN /\ ev' = [ev EXCEPT ![e] =
                            End([r EXCEPT !.effects = Append(@, Eff("getSignedUrl", "rejected", FALSE))],
                                "caught")]
                /\ UNCHANGED <<signedUrlCache, fetches>>
           ELSE IF url # NoUrl
           THEN /\ signedUrlCache' = CacheSet(signedUrlCache, key, url, ExpiresAt(r.now))
                /\ fetches' = fetches + 1
                /\ ev' = [ev EXCEPT ![e] =
                            [r EXCEPT !.effects = Append(@, EffStorage("getSignedUrl", url)),
                                      !.videoUrl = url, !.pc = "sendChatAction"]]
           ELSE /\ ev' = [ev EXCEPT ![e] =
                            [r EXCEPT !.effects = Append(@, EffStorage("getSignedUrl", NoUrl)),
                                      !.videoUrl = NoUrl, !.pc = "replyUnavailable"]]
                /\ UNCHANGED <<signedUrlCache, fetches>>
    /\ UNCHANGED <<env, cfg, warnings, bot, life, clock, ticks>>

\* Mutant: the URL of the public fallback is stored in the cache as a signed
\* URL is
GetSignedUrlReturns_CachesFallback(e, outcome, produced, t) ==
    /\ ev[e].pc = "getSignedUrl"
    /\ outcome \in {"url", "null", "throw"}
    /\ ~HasClient => outcome = "null" /\ ~produced
    /\ outcome # "null" => ~produced
    /\ t \in IssueMoments(ev[e].now)
    /\ LET r      == ev[e]
           path   == TemplateString(r.option.storagePath)
           key    == CacheKey(cfg.supabaseBucket, r.option)
           url    == getSignedUrl(path, outcome, fetches + 1, t)
           public == getPublicUrl(path, produced)
       IN  IF outcome = "throw"
           THEN /\ ev' = [ev EXCEPT ![e] =
                            End([r EXCEPT !.effects = Append(@, Eff("getSignedUrl", "rejected", FALSE))],
                                "caught")]
                /\ UNCHANGED <<signedUrlCache, fetches>>
           ELSE IF url # NoUrl
           THEN /\ signedUrlCache' = CacheSet(signedUrlCache, key, url, ExpiresAt(r.now))
                /\ fetches' = fetches + 1
                /\ ev' = [ev EXCEPT ![e] =
                            [r EXCEPT !.effects = Append(@, EffStorage("getSignedUrl", url)),
                                      !.videoUrl = url, !.pc = "sendChatAction"]]
           ELSE /\ ev' = [ev EXCEPT ![e] =
                            [r EXCEPT !.effects = @ \o << EffStorage("getSignedUrl", NoUrl),
                                                          EffStorage("getPublicUrl", public) >>,
                                      !.videoUrl = public,
                                      !.pc = IF public # NoUrl THEN "sendChatAction"
                                             ELSE "replyUnavailable"]]
                /\ signedUrlCache' = IF public # NoUrl
                                     THEN CacheSet(signedUrlCache, key, public, ExpiresAt(r.now))
                                     ELSE signedUrlCache
                /\ UNCHANGED fetches
    /\ UNCHANGED <<env, cfg, warnings, bot, life, clock, ticks>>

\* getVideoUrl from the return of `await this.supabaseService.getSignedUrl(...)`:
\* the cache write, or the public-URL fallback.  outcome "throw": the awaited
\* promise rejects, and the error leaves getVideoUrl and the handler.  t: the
\* moment the storage service signed the URL
GetSignedUrlReturns(e, outcome, produced, t) ==
    /\ ev[e].pc = "getSignedUrl"
    /\ outcome \in {"url", "null", "throw"}
    /\ ~HasClient => outcome = "null" /\ ~produced
    /\ outcome # "null" => ~produced
    /\ t \in IssueMoments(ev[e].now)
    /\ LET r      == ev[e]
           path   == TemplateString(r.option.storagePath)
           key    == CacheKey(cfg.supabaseBucket, r.option)
           url    == getSignedUrl(path, outcome, fetches + 1, t)
           public == getPublicUrl(path, produced)
       IN  IF outcome = "throw"
           THEN /\ ev' = [ev EXCEPT ![e] =
                            End([r EXCEPT !.effects = Append(@, Eff("getSignedUrl", "rejected", FALSE))],
                                "caught")]
                /\ UNCHANGED <<signedUrlCache, fetches>>
           ELSE IF url # NoUrl
           THEN /\ signedUrlCache' = CacheSet(signedUrlCache, key, url, ExpiresAt(r.now))
                /\ fetches' = fetches + 1
                /\ ev' = [ev EXCEPT ![e] =
                            [r EXCEPT !.effects = Append(@, EffStorage("getSignedUrl", url)),
                                      !.videoUrl = url, !.pc = "sendChatAction"]]
           ELSE /\ ev' = [ev EXCEPT ![e] =
                            [r EXCEPT !.effects = @ \o << EffStorage("getSignedUrl", NoUrl),
                                                          EffStorage("getPublicUrl", public) >>,
                                      !.videoUrl = public,
                                      !.pc = IF public # NoUrl THEN "sendChatAction"
                                             ELSE "replyUnavailable"]]
                /\ UNCHANGED <<signedUrlCache, fetches>>
    /\ UNCHANGED <<env, cfg, warnings, bot, life, clock, ticks>>

---------------------------------------------------------------------------
(* Delivery and the status message *)

\* Mutant: safeEditMessage without its try/catch
SafeEditRaises_NoCatch(ok) == ~ok

\* safeEditMessage: whether an error of editMessageText leaves the method.
\* The catch of lines 352-354 swallows it.
SafeEditRaises(ok) == FALSE

\* Mutant: safeEditMessage tries the edit a second time when it has failed
safeEditMessage_Retries(r, chatId, messageId, text, ok) ==
    IF bot = Null THEN r
    ELSE IF ok THEN [r EXCEPT !.effects = Append(@, EffEdit(chatId, messageId, text, ok))]
    ELSE [r EXCEPT !.effects = @ \o << EffEdit(chatId, messageId, text, FALSE),
                                        EffEdit(chatId, messageId, text, TRUE) >>]

\* safeEditMessage(chatId, messageId, text): no call without a bot handle
safeEditMessage(r, chatId, messageId, text, ok) ==
    IF bot = Null THEN r
    ELSE [r EXCEPT !.effects = Append(@, EffEdit(chatId, messageId, text, ok))]

\* await ctx.reply('Video will be delivered soon. ...')
ReplyUnavailable(e, ok) ==
    /\ ev[e].pc = "replyUnavailable"
    /\ ev' = [ev EXCEPT ![e] =
                LET r == [@ EXCEPT !.effects = Append(@, Eff("reply", TXT_NOT_AVAILABLE, ok))]
                IN  IF ok THEN [r EXCEPT !.pc = "editUnavailable"] ELSE End(r, "caught")]
    /\ UNCHANGED Others

\* await this.safeEditMessage(chat.id, message_id, 'Video will be sent once available.'); return
EditUnavailable(e, ok) ==
    /\ ev[e].pc = "editUnavailable"
    /\ ev' = [ev EXCEPT ![e] =
                End(safeEditMessage(@, @.statusMessage.chat, @.statusMessage.message_id,
                                    TXT_EDIT_PENDING, ok),
                    IF SafeEditRaises(ok) THEN "caught" ELSE "done")]
    /\ UNCHANGED Others

\* Mutant: the status message is edited to the success indicator before the
\* video is sent
SendChatAction_EditsFirst(e, ok) ==
    /\ ev[e].pc = "sendChatAction"
    /\ ev' = [ev EXCEPT ![e] =
                [@ EXCEPT !.effects = @ \o << Eff("sendChatAction", "upload_video", ok),
                                              EffEdit(ev[e].statusMessage.chat,
                                                      ev[e].statusMessage.message_id,
                                                      SuccessText(ev[e].option), TRUE) >>,
                          !.pc = IF ok THEN "replyWithVideo" ELSE "replyFailed"]]
    /\ UNCHANGED <<env, cfg, warnings, bot, life, signedUrlCache, clock, ticks, fetches>>

\* sendVideoCompressed: await ctx.sendChatAction('upload_video'), inside the try
SendChatAction(e, ok) ==
    /\ ev[e].pc = "sendChatAction"
    /\ ev' = [ev EXCEPT ![e] =
                [@ EXCEPT !.effects = Append(@, Eff("sendChatAction", "upload_video", ok)),
                          !.pc = IF ok THEN "replyWithVideo" ELSE "replyFailed"]]
    /\ UNCHANGED Others

\* Mutant: the video is sent outside the try block, so that its failure leaves
\* the handler
ReplyWithVideo_NoTry(e, ok) ==
    /\ ev[e].pc = "replyWithVideo"
    /\ ev' = [ev EXCEPT ![e] =
                LET r == [@ EXCEPT !.effects = Append(@, EffVideo(ev[e].videoUrl,
                                                   TemplateString(ev[e].option.caption), ok))]
                IN  IF ok THEN [r EXCEPT !.pc = "editSuccess"] ELSE End(r, "caught")]
    /\ UNCHANGED <<env, cfg, warnings, bot, life, signedUrlCache, clock, ticks, fetches>>

\* sendVideoCompressed: await ctx.replyWithVideo({url}, {caption, ...}), inside the try
ReplyWithVideo(e, ok) ==
    /\ ev[e].pc = "replyWithVideo"
    /\ ev' = [ev EXCEPT ![e] =
                [@ EXCEPT !.effects = Append(@, EffVideo(ev[e].videoUrl,
                                                         TemplateString(ev[e].option.caption), ok)),
                          !.pc = IF ok THEN "editSuccess" ELSE "replyFailed"]]
    /\ UNCHANGED Others

\* await this.safeEditMessage(chat.id, message_id, `Video sent: ${option.label}`), inside the try
EditSuccess(e, ok) ==
    /\ ev[e].pc = "editSuccess"
    /\ ev' = [ev EXCEPT ![e] =
                LET r == safeEditMessage(@, @.statusMessage.chat, @.statusMessage.message_id,
                                         SuccessText(@.option), ok)
                IN  IF SafeEditRaises(ok) THEN [r EXCEPT !.pc = "replyFailed"]
                    ELSE End(r, "done")]
    /\ UNCHANGED Others

\* catch: await ctx.reply('Sorry, failed to send the video. ...')
ReplyFailed(e, ok) ==
    /\ ev[e].pc = "replyFailed"
    /\ ev' = [ev EXCEPT ![e] =
                LET r == [@ EXCEPT !.effects = Append(@, Eff("reply", TXT_FAILED, ok))]
                IN  IF ok THEN [r EXCEPT !.pc = "editFailed"] ELSE End(r, "caught")]
    /\ UNCHANGED Others

\* catch: await this.safeEditMessage(chat.id, message_id, 'Failed to send video. ...')
EditFailed(e, ok) ==
    /\ ev[e].pc = "editFailed"
    /\ ev' = [ev EXCEPT ![e] =
                End(safeEditMessage(@, @.statusMessage.chat, @.statusMessage.message_id,
                                    TXT_EDIT_FAILED, ok),
                    IF SafeEditRaises(ok) THEN "caught" ELSE "done")]
    /\ UNCHANGED Others

\* The handlerTimeout given to `new Telegraf(token, {handlerTimeout})`: when the
\* handling of an update has lasted that long, handleUpdate gives the timeout
\* error to the bot.catch handler, which logs it, and resolves; the handler
\* itself goes on.  No timer runs when the timeout is Infinity.
HandlerTimeout(e) ==
    /\ bot # Null
    /\ cfg.handlerTimeoutMs # Infinity
    /\ ev[e].pc \notin {"none", "rejected", "uninitialized", "done", "caught"}
    /\ ~ev[e].timedOut
    /\ clock - ev[e].started >= cfg.handlerTimeoutMs
    /\ ev' = [ev EXCEPT ![e] =
                [@ EXCEPT !.timedOut = TRUE,
                          !.response = IF @ = "pending" THEN "ok_true" ELSE @]]
    /\ UNCHANGED Others

---------------------------------------------------------------------------
(* Specifications *)

Update(kind, data) == [kind |-> kind, data |-> data]

\* Steps of the callback handler and of the command handlers, with the
\* transport's outcome for each call
HandlerStep(e) ==
    \/ \E ok \in BOOLEAN : ReplyIntro(e, ok)
    \/ \E ok \in BOOLEAN : AnswerUnknown(e, ok)
    \/ \E ok \in BOOLEAN : AnswerSending(e, ok)
    \/ \E ok \in BOOLEAN : ReplyStatus(e, ok)
    \/ GetVideoUrlStart(e)
    \/ \E outcome \in {"url", "null", "throw"}, produced \in BOOLEAN, atReturn \in BOOLEAN :
          GetSignedUrlReturns(e, outcome, produced, IF atReturn THEN clock ELSE ev[e].now)
    \/ \E ok \in BOOLEAN : ReplyUnavailable(e, ok)
    \/ \E ok \in BOOLEAN : EditUnavailable(e, ok)
    \/ \E ok \in BOOLEAN : SendChatAction(e, ok)
    \/ \E ok \in BOOLEAN : ReplyWithVideo(e, ok)
    \/ \E ok \in BOOLEAN : EditSuccess(e, ok)
    \/ \E ok \in BOOLEAN : ReplyFailed(e, ok)
    \/ \E ok \in BOOLEAN : EditFailed(e, ok)

\* Startup in Polling mode
PollingStartup ==
    \/ Startup
    \/ \E ok \in BOOLEAN : InitDeleteWebhook(ok)
    \/ \E ok \in BOOLEAN : InitLaunch(ok)

\* The dispatcher: a bot in Polling mode, with and without a bucket and a
\* storage client, every kind of update, every outcome of every call.
DispatchEnvs ==
    { Env("123:abc", Undefined, Undefined, Undefined, Undefined, Undefined, bucket, client) :
        bucket \in {Undefined, "videos"}, client \in {Undefined, "configured"} }

DispatchUpdates ==
    { Update("callback_query", d) : d \in {"learn_vps", "not_a_real_key"} }
    \cup { Update("command", "/start") }

Init == InitWith(DispatchEnvs)

Next ==
    \/ PollingStartup
    \/ \E u \in DispatchUpdates : PollUpdate(u)
    \/ \E e \in Events : HandlerStep(e)

Spec == Init /\ [][Next]_vars

---------------------------------------------------------------------------
(* The catalog lookup under every payload: no bucket, so that a matched     *)
(* callback takes the short "not available" path                           *)

CatalogEnvs ==
    { Env("123:abc", Undefined, Undefined, Undefined, Undefined, Undefined, Undefined, Undefined) }

CatalogPayloads ==
    OwnKeys \cup {"", Undefined, "not_a_real_key", "Learn_vps", "constructor", "toString"}

CatalogUpdates == { Update("callback_query", d) : d \in CatalogPayloads }

InitCatalog == InitWith(CatalogEnvs)

NextCatalog ==
    \/ PollingStartup
    \/ \E u \in CatalogUpdates : PollUpdate(u)
    \/ \E e \in Events, ok \in BOOLEAN :
          \/ AnswerUnknown(e, ok)
          \/ AnswerSending(e, ok)
          \/ ReplyStatus(e, ok)
          \/ GetVideoUrlStart(e)
          \/ ReplyUnavailable(e, ok)
          \/ EditUnavailable(e, ok)

SpecCatalog == InitCatalog /\ [][NextCatalog]_vars

\* Updates that reached the callback handler
Callbacks ==
    { e \in Events : ev[e].kind = "callback_query"
                     /\ ev[e].pc \notin {"none", "rejected", "uninitialized"} }

\* The button of the menu whose payload is k
ButtonOf(k) == CHOOSE i \in DOMAIN menuMarkup : menuMarkup[i].callback_data = k

\* C1: the lookup of the callback handler yields, for a catalog key, exactly the
\* descriptor whose label built the menu button with that payload, and
\* not-found for every other payload (empty, missing, 'constructor', ...).
C1_LookupExact ==
    \A e \in Callbacks :
        IF ev[e].data \in OwnKeys
        THEN /\ ev[e].option = videoOptions[ev[e].data]
             /\ ev[e].option.label = menuMarkup[ButtonOf(ev[e].data)].text
        ELSE ev[e].option = NullOption

\* C6: a callback whose payload matches no catalog key is answered with
\* 'Unknown option' and nothing else is done for it.
C6_UnknownEndsThere ==
    \A e \in Callbacks :
        ev[e].data \notin OwnKeys =>
            /\ ev[e].pc \in {"answerUnknown", "done", "caught"}
            /\ Len(ev[e].effects) <= 1
            /\ \A i \in DOMAIN ev[e].effects :
                  /\ ev[e].effects[i].op = "answerCbQuery"
                  /\ ev[e].effects[i].text = TXT_UNKNOWN
            /\ ev[e].pc = "done" => Len(ev[e].effects) = 1

---------------------------------------------------------------------------
(* The dispatcher's effects, update by update *)

\* Positions of the calls of an update that satisfy a test
Calls(e, op) == { i \in DOMAIN ev[e].effects : ev[e].effects[i].op = op }
Replies(e, text) == { i \in Calls(e, "reply") : ev[e].effects[i].text = text }
Edits(e, text) == { i \in Calls(e, "editMessageText") : ev[e].effects[i].text = text }
Failed(e, op) == { i \in Calls(e, op) : ~ev[e].effects[i].ok }
Succeeded(e, op) == { i \in Calls(e, op) : ev[e].effects[i].ok }

TransportOps == {"answerCbQuery", "reply", "sendChatAction", "replyWithVideo", "editMessageText"}
StorageOps == {"getSignedUrl", "getPublicUrl"}

\* The calls of an update without the storage collaborator's
TransportTrace(e) == SelectSeq(ev[e].effects, LAMBDA x : x.op \notin StorageOps)

\* No call to the transport has failed for the update
NoTransportFailure(e) ==
    \A i \in DOMAIN ev[e].effects : ev[e].effects[i].op \in TransportOps => ev[e].effects[i].ok

\* getVideoUrl has returned for the update
Resolved(e) ==
    /\ Calls(e, "getVideoUrl") # {}
    /\ ev[e].pc # "getSignedUrl"
    /\ \A i \in Calls(e, "getSignedUrl") : ev[e].effects[i].text # "rejected"

IsPrefix(s, t) == Len(s) <= Len(t) /\ \A i \in DOMAIN s : s[i] = t[i]

\* The happy path of a matched callback, storage calls apart
HappyTrace(e) ==
    << Eff("answerCbQuery", TXT_ANSWER, TRUE),
       Eff("reply", TXT_STATUS, TRUE),
       Eff("getVideoUrl", "", TRUE),
       Eff("sendChatAction", "upload_video", TRUE),
       EffVideo(ev[e].videoUrl, ev[e].option.caption, TRUE),
       EffEdit(e, 1, SuccessText(ev[e].option), TRUE) >>

\* C7: for a matched callback with a resolvable URL and no transport failure
\* the calls are, in this order: the 'sending' status message, the URL
\* resolution, the 'upload_video' indicator, the video with the descriptor's
\* caption and the resolved URL, and the edit of that status message (same
\* chat, same message id) to the success indicator; the storage calls lie
\* between the resolution's start and the indicator, and the success edit is
\* never made before a video send has succeeded.
C7_HappyPathOrder ==
    \A e \in Callbacks :
        /\ ( /\ ev[e].option.tag = "descriptor"
             /\ NoTransportFailure(e)
             /\ Resolved(e) => ev[e].videoUrl # NoUrl )
           => /\ IsPrefix(TransportTrace(e), HappyTrace(e))
              /\ ev[e].pc = "done" => TransportTrace(e) = HappyTrace(e)
              /\ \A i \in DOMAIN ev[e].effects :
                    ev[e].effects[i].op \in StorageOps =>
                       /\ \E j \in Calls(e, "getVideoUrl") : j < i
                       /\ \A j \in Calls(e, "sendChatAction") : i < j
        /\ \A i \in Edits(e, SuccessText(ev[e].option)) :
              /\ \E j \in Succeeded(e, "replyWithVideo") : j < i
              /\ ev[e].effects[i].chat = ev[e].statusMessage.chat
              /\ ev[e].effects[i].msg = ev[e].statusMessage.message_id

\* C7 witness: a callback for learn_vps delivered over a freshly signed URL
C7_Witness ==
    \E e \in Callbacks :
        /\ ev[e].data = "learn_vps"
        /\ ev[e].pc = "done"
        /\ ev[e].videoUrl.kind = "signed"
        /\ NoTransportFailure(e)
        /\ Edits(e, SuccessText(ev[e].option)) # {}

\* getVideoUrl has returned null for the update
Unavailable(e) == Resolved(e) /\ ev[e].videoUrl = NoUrl

\* C8: for a matched callback whose URL resolution is unavailable (no bucket,
\* or the resolver returns nothing) there is no presence indicator and no
\* video send; a handler that runs to its end has sent exactly one 'not
\* available' message and made exactly one status-edit attempt, whose failure
\* changes nothing; without a bucket the storage collaborator is never called.
C8_Unavailable ==
    \A e \in Callbacks :
        /\ Unavailable(e) =>
              /\ Calls(e, "sendChatAction") = {} /\ Calls(e, "replyWithVideo") = {}
              /\ ev[e].pc \in {"replyUnavailable", "editUnavailable", "done", "caught"}
              /\ Cardinality(Replies(e, TXT_NOT_AVAILABLE)) <= 1
              /\ Replies(e, TXT_FAILED) = {}
              /\ ev[e].pc = "caught" => Failed(e, "reply") # {}
              /\ ev[e].pc = "done" =>
                    /\ Cardinality(Replies(e, TXT_NOT_AVAILABLE)) = 1
                    /\ Cardinality(Calls(e, "editMessageText")) = 1
                    /\ Cardinality(Edits(e, TXT_EDIT_PENDING)) = 1
        /\ ~Truthy(cfg.supabaseBucket) =>
              /\ \A i \in DOMAIN ev[e].effects : ev[e].effects[i].op \notin StorageOps
              /\ Resolved(e) => ev[e].videoUrl = NoUrl

\* C8 witness: learn_vps without a bucket, the status edit failed, the handler
\* ended normally
C8_Witness ==
    \E e \in Callbacks :
        /\ ev[e].data = "learn_vps"
        /\ ~Truthy(cfg.supabaseBucket)
        /\ ev[e].pc = "done"
        /\ Replies(e, TXT_NOT_AVAILABLE) # {}
        /\ Failed(e, "editMessageText") # {}

\* sendVideoCompressed has failed for the update: its presence indicator or
\* its video send
DeliveryFailed(e) == Failed(e, "sendChatAction") # {} \/ Failed(e, "replyWithVideo") # {}

\* What follows a failed delivery
AfterFailure(e) ==
    /\ TXT_FAILED # TXT_NOT_AVAILABLE
    /\ Replies(e, TXT_NOT_AVAILABLE) = {}
    /\ Edits(e, SuccessText(ev[e].option)) = {}
    /\ ev[e].pc \in {"replyFailed", "editFailed", "done", "caught"}
    /\ Cardinality(Replies(e, TXT_FAILED)) <= 1
    /\ ev[e].pc \in {"editFailed", "done"} =>
          Cardinality(Replies(e, TXT_FAILED) \cap Succeeded(e, "reply")) = 1
    /\ ev[e].pc = "caught" => Replies(e, TXT_FAILED) \cap Failed(e, "reply") # {}
    /\ ev[e].pc = "done" =>
          /\ Cardinality(Calls(e, "editMessageText")) = 1
          /\ Cardinality(Edits(e, TXT_EDIT_FAILED)) = 1

\* C9 as stated: after a failed video send there is one failure notice, distinct
\* from the 'not available' notice, and one edit to the failure indicator, never
\* to the success indicator; and the failure notice is sent only when a video
\* send was attempted and failed.
C9_NoticeOnlyAfterVideoSend ==
    \A e \in Callbacks :
        /\ Failed(e, "replyWithVideo") # {} => AfterFailure(e)
        /\ Replies(e, TXT_FAILED) # {} => Failed(e, "replyWithVideo") # {}

\* C9 amended: the same, with the failure notice sent only when
\* sendVideoCompressed was attempted and failed, that is when its presence
\* indicator or its video send failed.
C9_NoticeOnlyAfterDelivery ==
    \A e \in Callbacks :
        /\ DeliveryFailed(e) => AfterFailure(e)
        /\ Replies(e, TXT_FAILED) # {} => DeliveryFailed(e)

\* C9 witness: the video send failed, the notice was sent, the status message
\* was edited to the failure indicator
C9_Witness ==
    \E e \in Callbacks :
        /\ Failed(e, "replyWithVideo") # {}
        /\ ev[e].pc = "done"
        /\ Replies(e, TXT_FAILED) # {}
        /\ Edits(e, TXT_EDIT_FAILED) # {}

\* C10: a failed status edit is swallowed on every path: the edit is the last
\* call of its update, the handler ends normally after it whatever its
\* outcome, no failure notice is due to it, and after a successful video send
\* nothing but the edit follows.
C10_EditSwallowed ==
    \A e \in Callbacks :
        /\ \A i \in Calls(e, "editMessageText") :
              /\ i = Len(ev[e].effects)
              /\ ev[e].pc = "done"
        /\ Replies(e, TXT_FAILED) # {} => DeliveryFailed(e)
        /\ \A i \in Succeeded(e, "replyWithVideo") :
              /\ Replies(e, TXT_FAILED) = {}
              /\ \A j \in DOMAIN ev[e].effects : j > i => ev[e].effects[j].op = "editMessageText"
              /\ ev[e].pc \in {"editSuccess", "done"}

\* C10 witness: the video was sent, the edit to the success indicator failed,
\* the handler ended normally
C10_Witness ==
    \E e \in Callbacks :
        /\ Succeeded(e, "replyWithVideo") # {}
        /\ Failed(e, "editMessageText") # {}
        /\ ev[e].pc = "done"

---------------------------------------------------------------------------
(* Mode selection and startup under every configuration of the token, the   *)
(* callback URL and the polling override                                    *)

ModeEnvs ==
    { Env(token, alias, url, urlAlias, polling, secret, "videos", "configured") :
        token \in {Undefined, "", "123:abc"},
        alias \in {Undefined, "456:def"},
        url \in {Undefined, "", "https://bot.example/telegram/webhook"},
        urlAlias \in {Undefined, "https://legacy.example/telegram/webhook"},
        polling \in {Undefined, "", "true", "TRUE", "false", "False"},
        secret \in {Undefined, "X"} }

InitMode == InitWith(ModeEnvs)

NextMode ==
    \/ OnModuleInit
    \/ \E ok \in BOOLEAN : InitDeleteWebhook(ok)
    \/ \E ok \in BOOLEAN : InitLaunch(ok)
    \/ \E ok \in BOOLEAN : InitSetWebhook(ok)
    \/ Stop
    \/ \E ok \in BOOLEAN : StopDeleteWebhook(ok)

SpecMode == InitMode /\ [][NextMode]_vars

\* The two inputs of the mode selection, and what onModuleInit runs
forcePolling == pollingPreference(env) = "true"
overrideFalseOrUnset == pollingPreference(env) \in {"false", Null}
callbackUrlPresent == Truthy(cfg.webhookUrl)
StartedPolling == life.init \in {"poll_deleteWebhook", "poll_launch"} \/ life.polling
StartedWebhook == life.init \in {"wh_deleteWebhook", "wh_setWebhook"}
FallbackWarned == <<"warn", "WEBHOOK_URL", "missing, polling enabled">> \in warnings

\* The mode as a function of (forcePolling, callbackUrlPresent)
ModeRule ==
    /\ forcePolling => cfg.useLongPolling
    /\ overrideFalseOrUnset /\ callbackUrlPresent => ~cfg.useLongPolling
    /\ overrideFalseOrUnset /\ ~callbackUrlPresent => cfg.useLongPolling
    /\ StartedPolling => cfg.useLongPolling
    /\ StartedWebhook => ~cfg.useLongPolling

---------------------------------------------------------------------------
(* The webhook gate: a bot in Webhook mode, every secret against every header *)

GateEnvs ==
    { Env("123:abc", Undefined, "https://bot.example/telegram/webhook", Undefined, Undefined,
          secret, "videos", "configured") :
        secret \in {Undefined, "", "X"} }

GateHeaders == {Undefined, "X", "x"}

GateUpdates == { Update("callback_query", "learn_vps") }

InitGate == InitWith(GateEnvs)

NextGate ==
    \/ Startup
    \/ InitDeleteWebhook(TRUE)
    \/ InitSetWebhook(TRUE)
    \/ \E hdr \in GateHeaders, u \in GateUpdates : HandleWebhookUpdate(hdr, u)
    \/ \E e \in Events :
          \/ AnswerSending(e, TRUE)
          \/ ReplyStatus(e, TRUE)
          \/ GetVideoUrlStart(e)
          \/ GetSignedUrlReturns(e, "url", FALSE, ev[e].now)
          \/ SendChatAction(e, TRUE)
          \/ ReplyWithVideo(e, TRUE)
          \/ EditSuccess(e, TRUE)

SpecGate == InitGate /\ [][NextGate]_vars

\* Requests received by handleWebhookUpdate
Requests == { e \in Events : ev[e].via = "webhook" }

\* A secret is configured: TELEGRAM_WEBHOOK_SECRET has a non-empty value
SecretConfigured == Truthy(cfg.webhookSecret)

\* C2: without a configured secret every request passes the gate, whatever its
\* header; with a configured secret a request passes iff its header is that
\* very string: another string, the same letters in another case, the empty
\* string and a missing header are all rejected.
C2_GateDecision ==
    \A e \in Requests :
        /\ ~SecretConfigured => ev[e].pc # "rejected"
        /\ SecretConfigured /\ ev[e].hdr = cfg.webhookSecret => ev[e].pc # "rejected"
        /\ SecretConfigured /\ ev[e].hdr # cfg.webhookSecret => ev[e].pc = "rejected"

\* C2 witness: secret "X": one request with header "x" rejected, one with
\* header "X" accepted
C2_Witness ==
    /\ cfg.webhookSecret = "X"
    /\ \E e \in Requests : ev[e].hdr = "x" /\ ev[e].pc = "rejected"
    /\ \E e \in Requests : ev[e].hdr = "X" /\ ev[e].pc \notin {"rejected", "none"}

\* A request whose header is not the configured secret
Mismatch(e) == SecretConfigured /\ ev[e].hdr # cfg.webhookSecret

\* The step is handleWebhookUpdate receiving request e
Receives(e) == ev[e].pc = "none" /\ ev'[e].pc # "none"

\* C3, state part: a request with a wrong header is answered {ok: false} and
\* never reaches a handler: no call is made for it
C3_RejectedState ==
    \A e \in Requests :
        Mismatch(e) =>
            /\ ev[e].pc = "rejected"
            /\ ev[e].response = "ok_false"
            /\ ev[e].effects = << >>
            /\ ev[e].videoUrl = NoUrl

\* C3, step part: receiving a request with a wrong header changes nothing but
\* that request's entry (cache, bot handle and every other update untouched),
\* and a request with the right header is handed to the bot whenever the bot
\* handle exists, whatever was rejected before
C3_RejectedStep ==
    \A e \in Events :
        Receives(e) /\ ev'[e].via = "webhook" =>
            /\ (SecretConfigured /\ ev'[e].hdr # cfg.webhookSecret) =>
                  /\ UNCHANGED <<env, cfg, warnings, bot, life, signedUrlCache, clock, ticks, fetches>>
                  /\ \A f \in Events \ {e} : ev'[f] = ev[f]
            /\ (SecretConfigured /\ ev'[e].hdr = cfg.webhookSecret /\ bot # Null) =>
                  /\ ev'[e].pc = "answerSending"
                  /\ ev'[e].response = "pending"

\* C3: a webhook request whose header is not the configured secret gets
\* {ok: false}, is never dispatched and changes no state; later requests with
\* the right secret are still dispatched.
C3_RejectionIsLocal == []C3_RejectedState /\ [][C3_RejectedStep]_vars

\* C3 witness: a request was rejected, and a later one with the right secret
\* was dispatched, served from a freshly cached URL and answered {ok: true}
C3_Witness ==
    \E e, f \in Requests :
        /\ e < f
        /\ ev[e].pc = "rejected" /\ ev[e].response = "ok_false"
        /\ ev[f].hdr = cfg.webhookSecret
        /\ ev[f].pc = "done" /\ ev[f].response = "ok_true"
        /\ DOMAIN signedUrlCache # {}

---------------------------------------------------------------------------
(* The URL cache over time: a bot in Polling mode with a bucket and a       *)
(* storage client, callbacks for one key, the clock advancing around the    *)
(* edge of the validity window                                              *)

CacheEnvs ==
    { Env("123:abc", Undefined, Undefined, Undefined, Undefined, Undefined, "videos", "configured") }

CacheUpdates == { Update("callback_query", "learn_vps") }

\* Length of the window in which a cached URL is served: TTL minus margin
WindowMs == EXPIRES_IN_SECONDS * MS_PER_SECOND - SAFETY_MARGIN_MS

\* To the last millisecond inside the window, and to the first outside it
TickSteps == { WindowMs - 1, WindowMs }

InitCache == InitWith(CacheEnvs)

NextCache ==
    \/ Startup
    \/ InitDeleteWebhook(TRUE)
    \/ InitLaunch(TRUE)
    \/ \E d \in TickSteps : Tick(d)
    \/ \E u \in CacheUpdates : PollUpdate(u)
    \/ \E e \in Events :
          \/ AnswerSending(e, TRUE)
          \/ ReplyStatus(e, TRUE)
          \/ GetVideoUrlStart(e)
          \/ GetSignedUrlReturns(e, "url", FALSE, ev[e].now)
          \/ GetSignedUrlReturns(e, "null", TRUE, ev[e].now)
          \/ SendChatAction(e, TRUE)
          \/ ReplyWithVideo(e, TRUE)
          \/ EditSuccess(e, TRUE)

SpecCache == InitCache /\ [][NextCache]_vars

\* Updates whose handler has entered getVideoUrl past the bucket check
Resolutions ==
    { e \in Callbacks : Calls(e, "getVideoUrl") # {} /\ Truthy(cfg.supabaseBucket) }

KeyOf(e) == CacheKey(cfg.supabaseBucket, ev[e].option)

\* The resolution of e fetched a signed URL itself
Fetched(e) == Succeeded(e, "getSignedUrl") # {} /\ ev[e].videoUrl.kind = "signed"

\* C5 as stated: after a successful signed-URL resolution at time t, every
\* later resolution of the same key at a time t' with t' + 15 s < t + 3600 s
\* returns the identical URL and calls the provider not at all; a resolution
\* outside that window makes exactly one fetch and overwrites the entry.
C5_WindowAsStated ==
    \A e1 \in Resolutions, e2 \in Resolutions :
        ( /\ e1 # e2
          /\ KeyOf(e1) = KeyOf(e2)
          /\ Fetched(e1)
          /\ ev[e2].cached.url = ev[e1].videoUrl
          /\ Resolved(e2) )
        => IF ev[e2].now + SAFETY_MARGIN_MS < ev[e1].now + EXPIRES_IN_SECONDS * MS_PER_SECOND
           THEN /\ ev[e2].videoUrl = ev[e1].videoUrl
                /\ Calls(e2, "getSignedUrl") = {}
           ELSE /\ Cardinality(Calls(e2, "getSignedUrl")) = 1
                /\ signedUrlCache[KeyOf(e2)].url # ev[e1].videoUrl

\* The entry found at the start of resolution e is served
Hit(e) == ev[e].cached # NoEntry /\ ev[e].now + SAFETY_MARGIN_MS < ev[e].cached.expiresAt

\* C5 amended, state part: a resolution that finds an entry with
\* now + 15 s < expiresAt returns the entry's URL without any call to the
\* provider; any other makes exactly one signed-URL fetch; every entry of the
\* cache holds a URL some resolution fetched, with the expiry now + 3600 s of
\* that resolution
C5_WindowState ==
    /\ \A e \in Resolutions :
          IF Hit(e)
          THEN /\ ev[e].videoUrl = ev[e].cached.url
               /\ Calls(e, "getSignedUrl") = {} /\ Calls(e, "getPublicUrl") = {}
               /\ ev[e].pc # "getSignedUrl"
          ELSE /\ ev[e].pc = "getSignedUrl" => Calls(e, "getSignedUrl") = {}
               /\ ev[e].pc # "getSignedUrl" => Cardinality(Calls(e, "getSignedUrl")) = 1
    /\ \A k \in DOMAIN signedUrlCache :
          \E e \in Resolutions :
              /\ KeyOf(e) = k /\ Fetched(e)
              /\ signedUrlCache[k] = [url |-> ev[e].videoUrl,
                                      expiresAt |-> ev[e].now + EXPIRES_IN_SECONDS * MS_PER_SECOND]

\* C5 amended, step part: the return of a fetch overwrites the entry of the
\* key iff it yields a URL, and nothing else changes the cache
C5_WindowStep ==
    /\ \A e \in Events :
          (ev[e].pc = "getSignedUrl" /\ ev'[e].pc # "getSignedUrl") =>
              IF ev'[e].videoUrl.kind = "signed"
              THEN /\ KeyOf(e) \in DOMAIN signedUrlCache'
                   /\ signedUrlCache'[KeyOf(e)] =
                         [url |-> ev'[e].videoUrl,
                          expiresAt |-> ev[e].now + EXPIRES_IN_SECONDS * MS_PER_SECOND]
                   /\ (KeyOf(e) \in DOMAIN signedUrlCache =>
                          signedUrlCache'[KeyOf(e)].url # signedUrlCache[KeyOf(e)].url)
              ELSE signedUrlCache' = signedUrlCache
    /\ signedUrlCache' # signedUrlCache =>
          \E e \in Events : ev[e].pc = "getSignedUrl" /\ ev'[e].pc # "getSignedUrl"

\* C5 amended: a resolution that starts at t' and finds a cache entry with
\* t' + 15 s < expiresAt returns that entry's URL without a fetch; any other
\* makes exactly one signed-URL fetch and overwrites the entry, with expiry
\* t' + 3600 s, when and only when the fetch yields a URL.
C5_Window == []C5_WindowState /\ [][C5_WindowStep]_vars

\* C5 witness: a URL fetched at time 0 is served again one millisecond before
\* the window closes, and a resolution at that moment or later fetched anew
C5_Witness ==
    \E e1 \in Resolutions, e2 \in Resolutions :
        /\ Fetched(e1) /\ ev[e1].now = 0
        /\ ev[e2].now = WindowMs - 1
        /\ ev[e2].pc = "done"
        /\ ev[e2].videoUrl = ev[e1].videoUrl
        /\ Calls(e2, "getSignedUrl") = {}

---------------------------------------------------------------------------
(* Failure isolation *)

\* The calls of update e whose error leaves the handler: transport calls made
\* outside the try block and outside safeEditMessage, or in the catch block
Escaping(e) ==
    { i \in DOMAIN ev[e].effects :
        /\ ~ev[e].effects[i].ok
        /\ ev[e].effects[i].op \in {"answerCbQuery", "reply"} }

\* C11, state part: a failed acknowledgment or reply is the last call of its
\* update, whose handling ended in bot.catch
C11_CaughtState ==
    \A e \in Used :
        Escaping(e) # {} => ev[e].pc = "caught" /\ Escaping(e) = {Len(ev[e].effects)}

\* C11, step part: the step in which an update ends in bot.catch changes that
\* update alone: no other update, not the bot handle, the polling loop, the
\* configuration or the cache
C11_CaughtStep ==
    \A e \in Events :
        (ev[e].pc # "caught" /\ ev'[e].pc = "caught") =>
            /\ \A f \in Events \ {e} : ev'[f] = ev[f]
            /\ UNCHANGED <<bot, life, cfg, signedUrlCache>>

\* C11: an error thrown by a transport call of one update (acknowledgment,
\* provisional reply, 'not available' reply, failure notice, command reply)
\* ends that update in bot.catch and changes nothing else: the process, the
\* other updates in flight and the updates that arrive later go on as before.
C11_FailureIsolation == []C11_CaughtState /\ [][C11_CaughtStep]_vars

\* C11 witness: one update ended in bot.catch on a failed transport call, and
\* another callback ran its whole happy path to the success edit
C11_Witness ==
    \E e \in Used, f \in Callbacks :
        /\ e # f
        /\ ev[e].pc = "caught" /\ Escaping(e) # {}
        /\ ev[f].pc = "done"
        /\ Succeeded(f, "replyWithVideo") # {}
        /\ Edits(f, SuccessText(ev[f].option)) # {}

---------------------------------------------------------------------------
(* Propagation of errors *)

\* The calls of update e that raised an error: a rejected transport call other
\* than the swallowed status edit, or a rejected resolver call
Raised(e) ==
    { i \in DOMAIN ev[e].effects :
        /\ ~ev[e].effects[i].ok
        /\ \/ ev[e].effects[i].op \in {"answerCbQuery", "reply", "sendChatAction", "replyWithVideo"}
           \/ ev[e].effects[i].op = "getSignedUrl" /\ ev[e].effects[i].text = "rejected" }

\* An error of update e was logged: by the bot.catch handler (line 141) or by
\* the catch block of the callback handler (line 243)
Logged(e) == ev[e].pc = "caught" \/ DeliveryFailed(e)

\* C12: every error raised while an update is handled, at whatever step (the
\* acknowledgment, the provisional message, the resolver, the video send), is
\* turned into a reply to the chat and a log entry.
C12_EveryErrorReplied ==
    \A e \in Used :
        (ev[e].pc \in {"done", "caught"} /\ Raised(e) # {}) =>
            /\ Logged(e)
            /\ \E i \in Raised(e), j \in Succeeded(e, "reply") : i < j

---------------------------------------------------------------------------
(* The public-URL fallback *)

\* The signed-URL request of update e came back without a URL
SignedFailed(e) ==
    { i \in Failed(e, "getSignedUrl") : ev[e].effects[i].text # "rejected" }

\* C13 as stated: when the signed-URL request fails, or no bucket is
\* configured, getVideoUrl attempts a public-URL lookup, returns the public
\* URL if there is one, and returns unavailable only if that lookup yields
\* nothing as well.
C13_FallbackAlways ==
    \A e \in Callbacks :
        (Resolved(e) /\ (SignedFailed(e) # {} \/ ~Truthy(cfg.supabaseBucket))) =>
            /\ Cardinality(Calls(e, "getPublicUrl")) = 1
            /\ \A i \in Calls(e, "getPublicUrl") : ev[e].videoUrl = ev[e].effects[i].url

\* C13 amended: with a bucket, a signed-URL request that comes back without a
\* URL is followed at once by one public-URL lookup whose result getVideoUrl
\* returns, so that delivery proceeds with a public URL and the update is
\* unavailable only when the lookup yields nothing too; a signed URL is never
\* followed by a lookup; without a bucket getVideoUrl returns unavailable and
\* the storage collaborator is not called at all.
C13_Fallback ==
    \A e \in Callbacks :
        /\ (Resolved(e) /\ SignedFailed(e) # {}) =>
              /\ Truthy(cfg.supabaseBucket)
              /\ Cardinality(Calls(e, "getSignedUrl")) = 1
              /\ Cardinality(Calls(e, "getPublicUrl")) = 1
              /\ \A i \in Calls(e, "getSignedUrl") : Calls(e, "getPublicUrl") = {i + 1}
              /\ \A i \in Calls(e, "getPublicUrl") :
                    /\ ev[e].videoUrl = ev[e].effects[i].url
                    /\ ev[e].videoUrl.kind \in {"public", "none"}
              /\ ev[e].videoUrl.kind = "public" =>
                    /\ Replies(e, TXT_NOT_AVAILABLE) = {}
                    /\ ev[e].pc \in {"sendChatAction", "replyWithVideo", "editSuccess",
                                     "replyFailed", "editFailed", "done", "caught"}
                    /\ \A j \in Calls(e, "replyWithVideo") : ev[e].effects[j].url = ev[e].videoUrl
              /\ ev[e].videoUrl = NoUrl => Calls(e, "sendChatAction") = {}
        /\ Succeeded(e, "getSignedUrl") # {} => Calls(e, "getPublicUrl") = {}
        /\ (Resolved(e) /\ ~Truthy(cfg.supabaseBucket)) =>
              /\ ev[e].videoUrl = NoUrl
              /\ \A i \in DOMAIN ev[e].effects : ev[e].effects[i].op \notin StorageOps

\* C13 witness: the signed-URL request failed, the public URL was produced and
\* the video was delivered with it
C13_Witness ==
    \E e \in Callbacks :
        /\ SignedFailed(e) # {}
        /\ ev[e].videoUrl.kind = "public"
        /\ ev[e].pc = "done"
        /\ \E j \in Succeeded(e, "replyWithVideo") : ev[e].effects[j].url.kind = "public"

---------------------------------------------------------------------------
(* Startup, shutdown and inbound updates together: with and without a       *)
(* token, in both modes, every outcome of the startup and shutdown calls,   *)
(* onModuleInit called more than once, commands arriving by both routes     *)

StartupEnvs ==
    { Env(token, Undefined, url, Undefined, polling, Undefined, Undefined, Undefined) :
        token \in {Undefined, "123:abc"},
        url \in {Undefined, "https://bot.example/telegram/webhook"},
        polling \in {Undefined, "true"} }

StartupUpdates == { Update("command", "/start") }

InitStartup == InitWith(StartupEnvs)

NextStartup ==
    \/ OnModuleInit
    \/ \E ok \in BOOLEAN : InitDeleteWebhook(ok)
    \/ \E ok \in BOOLEAN : InitLaunch(ok)
    \/ \E ok \in BOOLEAN : InitSetWebhook(ok)
    \/ Stop
    \/ \E ok \in BOOLEAN : StopDeleteWebhook(ok)
    \/ \E u \in StartupUpdates : HandleWebhookUpdate(Undefined, u)
    \/ \E u \in StartupUpdates : PollUpdate(u)
    \/ \E e \in Events, ok \in BOOLEAN : ReplyIntro(e, ok)

SpecStartup == InitStartup /\ [][NextStartup]_vars

\* The token onModuleInit resolves
Token == resolveWithAlias(env, "BOT_TOKEN", "TELEGRAM_BOT_TOKEN")

\* Updates handed to a handler
Handled == { e \in Events : ev[e].pc \notin {"none", "rejected", "uninitialized"} }

\* The calls onModuleInit has made to the transport
InitCalls(op) == { i \in DOMAIN life.calls : life.calls[i].by = "onModuleInit" /\ life.calls[i].op = op }

\* C14, state part: without a token onModuleInit throws and leaves no handle,
\* no handler and no call; Webhook mode without a callback URL does not
\* complete as running
C14_FatalState ==
    /\ (life.inits > 0 /\ ~Truthy(Token)) =>
          /\ life.init = "threw"
          /\ bot = Null /\ life.handlers = 0 /\ life.calls = << >>
    /\ (life.inits > 0 /\ ~cfg.useLongPolling /\ ~Truthy(cfg.webhookUrl)) => life.init # "done"

\* C14, step part: once onModuleInit has failed no update is handed to a handler
C14_FatalStep ==
    life.init = "threw" =>
        \A e \in Events : ev[e].pc = "none" => ev'[e].pc \in {"none", "rejected", "uninitialized"}

---------------------------------------------------------------------------
(* Single initialization *)

\* C19, state part: the mode is the one the constructor computed; the handlers
\* were registered at most once, and exactly once for every update handled;
\* onModuleInit issued each of its transport calls at most once
C19_OnceState ==
    /\ cfg = Constructor(env)
    /\ life.handlers <= 1
    /\ bot # Null <=> life.handlers = 1
    /\ Handled # {} => life.handlers = 1
    /\ \A op \in {"deleteWebhook", "setWebhook", "launch"} : Cardinality(InitCalls(op)) <= 1

\* C19, step part: the configuration never changes, and a call of onModuleInit
\* made when the bot handle exists changes nothing but the count of such calls
C19_OnceStep ==
    /\ cfg' = cfg
    /\ (bot # Null /\ life'.inits # life.inits) =>
          /\ life' = [life EXCEPT !.inits = @ + 1]
          /\ UNCHANGED <<bot, ev, warnings, signedUrlCache>>

\* C19: the dispatch mode is fixed at construction; once onModuleInit has
\* created the bot handle a further call of it makes no transport call and
\* registers no handler again, so that every update is handled by one handler.
C19_SingleInit == []C19_OnceState /\ [][C19_OnceStep]_vars

\* C19 witness: onModuleInit was called twice, the bot runs configured once,
\* and an update was handled
C19_Witness ==
    /\ life.inits = 2
    /\ life.init = "done"
    /\ life.handlers = 1
    /\ Cardinality(InitCalls("deleteWebhook")) = 1
    /\ \E e \in Handled : ev[e].pc = "done"

---------------------------------------------------------------------------
(* Order of the startup calls, and teardown *)

\* The calls of onModuleInit, and of stop, in the order they were made
CallsBy(by) == SelectSeq(life.calls, LAMBDA c : c.by = by)

\* C15: in Webhook mode startup first removes the previous webhook, dropping
\* pending updates, and only when that call has returned registers the
\* callback URL with the configured secret (or none) and the allow-list
\* {message, callback_query}; setWebhook is issued at most once and never
\* before deleteWebhook.
C15_WebhookOrder ==
    ~cfg.useLongPolling =>
        LET c == CallsBy("onModuleInit")
        IN  /\ Len(c) <= 2
            /\ Len(c) >= 1 => c[1] = CallDeleteWebhook("onModuleInit", c[1].ok) /\ c[1].drop
            /\ Len(c) = 2 =>
                  /\ c[1].ok
                  /\ c[2].op = "setWebhook"
                  /\ c[2].url = resolveWithAlias(env, "WEBHOOK_URL", "TELEGRAM_WEBHOOK_URL")
                  /\ Truthy(c[2].url)
                  /\ c[2].secret = env["TELEGRAM_WEBHOOK_SECRET"]
                  /\ c[2].allowed = {"message", "callback_query"}
            /\ life.init = "done" => Len(c) = 2 /\ c[2].ok
            /\ life.webhook => Len(c) = 2 /\ c[2].ok
            /\ ~life.polling

\* C15 witness: a webhook registered with the secret "X"
C15_Witness ==
    /\ ~cfg.useLongPolling
    /\ life.init = "done"
    /\ Len(CallsBy("onModuleInit")) = 2
    /\ CallsBy("onModuleInit")[2].secret = "X"
    /\ life.webhook

C17_Teardown ==
    LET c == CallsBy("stop")
    IN  /\ Len(c) <= 1
        /\ Len(c) = 1 => c[1].op = (IF cfg.useLongPolling THEN "stop" ELSE "deleteWebhook")
        /\ bot = Null => Len(c) = 0
        /\ (life.stop = "done" /\ Len(c) = 1) => ~life.webhook /\ ~life.polling

---------------------------------------------------------------------------
(* Concurrent refresh of the cache: callbacks for two keys, started at      *)
(* different times, whose signed-URL fetches return in any order            *)

RaceUpdates == { Update("callback_query", d) : d \in {"learn_vps", "buy_vps"} }

InitRace == InitWith(CacheEnvs)

NextRace ==
    \/ Startup
    \/ InitDeleteWebhook(TRUE)
    \/ InitLaunch(TRUE)
    \/ Tick(1)
    \/ \E u \in RaceUpdates : PollUpdate(u)
    \/ \E e \in Events :
          \/ AnswerSending(e, TRUE)
          \/ ReplyStatus(e, TRUE)
          \/ GetVideoUrlStart(e)
          \/ GetSignedUrlReturns(e, "url", FALSE, ev[e].now)
          \/ SendChatAction(e, TRUE)
          \/ ReplyWithVideo(e, TRUE)
          \/ EditSuccess(e, TRUE)

SpecRace == InitRace /\ [][NextRace]_vars

\* The resolutions of key k that missed the cache and fetched a signed URL
Writers(k) == { e \in Resolutions : KeyOf(e) = k /\ ~Hit(e) /\ Fetched(e) }

\* C18, state part: resolutions that miss fetch each their own URL and return
\* it; the entry of a key is the pair {url, expiresAt} of the writer whose
\* fetch returned last: its URL with the expiry computed from its own start
C18_RaceState ==
    /\ \A e \in Resolutions :
          (~Hit(e) /\ Resolved(e)) =>
              /\ Cardinality(Succeeded(e, "getSignedUrl")) = 1
              /\ \A i \in Succeeded(e, "getSignedUrl") : ev[e].videoUrl = ev[e].effects[i].url
              /\ \A f \in Resolutions \ {e} : Fetched(f) => ev[f].videoUrl # ev[e].videoUrl
    /\ \A k \in DOMAIN signedUrlCache :
          \E e \in Writers(k) :
              /\ signedUrlCache[k] = [url |-> ev[e].videoUrl, expiresAt |-> ExpiresAt(ev[e].now)]
              /\ \A f \in Writers(k) : ev[f].videoUrl.n <= ev[e].videoUrl.n
    /\ \A e \in Resolutions : Fetched(e) => KeyOf(e) \in DOMAIN signedUrlCache

\* C18, step part: the return of a fetch writes the entry of its own key and
\* leaves the entries of the other keys as they were
C18_RaceStep ==
    \A e \in Events :
        (ev[e].pc = "getSignedUrl" /\ ev'[e].pc # "getSignedUrl") =>
            /\ DOMAIN signedUrlCache' = DOMAIN signedUrlCache \cup {KeyOf(e)}
            /\ \A k \in DOMAIN signedUrlCache :
                  k # KeyOf(e) => signedUrlCache'[k] = signedUrlCache[k]

\* C18: when updates for one key run concurrently and all miss the cache,
\* each fetches and returns its own signed URL, and under every interleaving
\* the entry of the key is the {url, expiresAt} pair of the last writer; the
\* entries of other keys are untouched.
C18_LastWriterWins == []C18_RaceState /\ [][C18_RaceStep]_vars

\* C18 witness: two updates for one key missed the cache at different times;
\* the one that started first wrote last, so the entry holds its URL with its
\* own, earlier, expiry
C18_Witness ==
    \E e \in Resolutions, f \in Resolutions :
        /\ e # f /\ KeyOf(e) = KeyOf(f)
        /\ ev[e].cached = NoEntry /\ ev[f].cached = NoEntry
        /\ Fetched(e) /\ Fetched(f)
        /\ ev[e].now < ev[f].now
        /\ signedUrlCache[KeyOf(e)] = [url |-> ev[e].videoUrl, expiresAt |-> ExpiresAt(ev[e].now)]

---------------------------------------------------------------------------
(* The handler timeout: a bot in Polling mode with a bucket and a client,   *)
(* the timeout unset, unusable ("0", "abc") and one millisecond             *)

TimeoutEnvs ==
    { EnvWithTimeout(e, t) : e \in CacheEnvs, t \in {Undefined, "0", "abc", "1"} }

InitTimeout == InitWith(TimeoutEnvs)

NextTimeout ==
    \/ Startup
    \/ InitDeleteWebhook(TRUE)
    \/ InitLaunch(TRUE)
    \/ Tick(1)
    \/ \E u \in CacheUpdates : PollUpdate(u)
    \/ \E e \in Events : HandlerTimeout(e)
    \/ \E e \in Events, ok \in BOOLEAN :
          \/ AnswerSending(e, TRUE)
          \/ ReplyStatus(e, TRUE)
          \/ GetVideoUrlStart(e)
          \/ GetSignedUrlReturns(e, "url", FALSE, ev[e].now)
          \/ SendChatAction(e, ok)
          \/ ReplyWithVideo(e, ok)
          \/ EditSuccess(e, TRUE)
          \/ ReplyFailed(e, TRUE)
          \/ EditFailed(e, TRUE)

SpecTimeout == InitTimeout /\ [][NextTimeout]_vars

\* C20: when a positive handler timeout is configured and the handling of a
\* callback exceeds it, the overrun is reported as a delivery failure is: the
\* user receives the failure notice and the provisional status message is
\* edited to the failure indicator.
C20_TimeoutReported ==
    \A e \in Callbacks :
        (ev[e].timedOut /\ ev[e].pc = "done") =>
            /\ Replies(e, TXT_FAILED) # {}
            /\ Edits(e, TXT_EDIT_FAILED) # {}

---------------------------------------------------------------------------
(* Alias precedence *)

\* The pairs (primary key, legacy alias) resolveWithAlias is called with
AliasPairs == { <<"BOT_TOKEN", "TELEGRAM_BOT_TOKEN">>, <<"WEBHOOK_URL", "TELEGRAM_WEBHOOK_URL">> }

\* C21: in a service that has been started, for the bot token and the callback
\* URL alike: a primary key with a value is used, with a warning when the
\* alias holds a different value; a primary key without a usable value (unset
\* or empty) yields the value of the alias when the alias has one; the result
\* is absent only when neither key has a usable value, so that onModuleInit
\* throws for a missing token only then, and the callback URL of the
\* configuration is the resolved one.
C21_AliasPrecedence ==
    life.inits > 0 =>
        /\ \A pair \in AliasPairs :
              LET primary  == Get(env, pair[1])
                  alias    == Get(env, pair[2])
                  resolved == resolveWithAlias(env, pair[1], pair[2])
              IN  /\ Truthy(primary) =>
                        /\ resolved = primary
                        /\ (Truthy(alias) /\ alias # primary) =>
                              <<"warn", pair[1], "both set">>
                                  \in resolveWithAliasLog(env, pair[1], pair[2])
                  /\ (~Truthy(primary) /\ Truthy(alias)) => resolved = alias
                  /\ ~Truthy(resolved) <=> (~Truthy(primary) /\ ~Truthy(alias))
        /\ cfg.webhookUrl = resolveWithAlias(env, "WEBHOOK_URL", "TELEGRAM_WEBHOOK_URL")
        /\ bot = Null =>
              (~Truthy(Get(env, "BOT_TOKEN")) /\ ~Truthy(Get(env, "TELEGRAM_BOT_TOKEN")))

---------------------------------------------------------------------------
(* The keyspace of the cache: a bot in Polling mode with a bucket and a     *)
(* storage client, callbacks with catalog keys, with an unknown payload and *)
(* with a property name of Object.prototype, every outcome of every call    *)

KeyspaceUpdates ==
    { Update("callback_query", d) : d \in {"learn_vps", "buy_vps", "not_a_real_key", "constructor"} }
    \cup { Update("command", "/start") }

InitKeyspace == InitWith(CacheEnvs)

NextKeyspace ==
    \/ Startup
    \/ InitDeleteWebhook(TRUE)
    \/ InitLaunch(TRUE)
    \/ Tick(WindowMs)
    \/ \E u \in KeyspaceUpdates : PollUpdate(u)
    \/ \E e \in Events : HandlerStep(e)

SpecKeyspace == InitKeyspace /\ [][NextKeyspace]_vars

\* The cache keys of the catalog: one per descriptor
CatalogCacheKeys == { CacheKey(cfg.supabaseBucket, videoOptions[k]) : k \in OwnKeys }

\* The step is the return of the signed-URL fetch of update e with a URL
FetchReturns(e) ==
    /\ ev[e].pc = "getSignedUrl"
    /\ ev'[e].pc # "getSignedUrl"
    /\ ev'[e].videoUrl.kind = "signed"

\* C22, state part: every key of the cache is the (bucket, storagePath) pair of
\* a catalog descriptor, and the cache has no more entries than the catalog
C22_KeyspaceState ==
    /\ DOMAIN signedUrlCache \subseteq CatalogCacheKeys
    /\ Cardinality(DOMAIN signedUrlCache) <= Cardinality(OwnKeys)

\* C22, step part: no entry is ever removed, and an entry is created or
\* overwritten only by the return of a signed-URL fetch with a URL, for the
\* key of that fetch alone
C22_KeyspaceStep ==
    /\ DOMAIN signedUrlCache \subseteq DOMAIN signedUrlCache'
    /\ \A k \in DOMAIN signedUrlCache' :
          (k \notin DOMAIN signedUrlCache \/ signedUrlCache'[k] # signedUrlCache[k]) =>
              \E e \in Events :
                  /\ FetchReturns(e)
                  /\ k = KeyOf(e)
                  /\ signedUrlCache'[k].url = ev'[e].videoUrl

\* C22: after any sequence of inbound updates, with any payload and any
\* outcome of the resolver, every key of the signed-URL cache is the (bucket,
\* storagePath) pair of a catalog descriptor and the number of entries does not
\* exceed the size of the catalog; an entry is created only by a successful
\* signed-URL resolution, overwritten only by a later one, and never removed.
C22_Keyspace == []C22_KeyspaceState /\ [][C22_KeyspaceStep]_vars

---------------------------------------------------------------------------
(* Conservative expiry: the bot of the cache specification, with every      *)
(* signed URL issued at the moment of its request or at that of its return  *)

InitExpiry == InitWith(CacheEnvs)

NextExpiry ==
    \/ Startup
    \/ InitDeleteWebhook(TRUE)
    \/ InitLaunch(TRUE)
    \/ \E d \in TickSteps : Tick(d)
    \/ \E u \in CacheUpdates : PollUpdate(u)
    \/ \E e \in Events :
          \/ AnswerSending(e, TRUE)
          \/ ReplyStatus(e, TRUE)
          \/ GetVideoUrlStart(e)
          \/ \E atReturn \in BOOLEAN :
                GetSignedUrlReturns(e, "url", FALSE, IF atReturn THEN clock ELSE ev[e].now)
          \/ SendChatAction(e, TRUE)
          \/ ReplyWithVideo(e, TRUE)
          \/ EditSuccess(e, TRUE)

SpecExpiry == InitExpiry /\ [][NextExpiry]_vars

\* The moment a signed URL stops working: the storage service signs it for
\* the full expiresInSeconds from the moment of its issue
TrueExpiry(url) == url.issuedAt + EXPIRES_IN_SECONDS * MS_PER_SECOND

\* C23: with every signed URL valid for the full 3600 s from a moment not
\* earlier than the resolver's request, the expiresAt of a cache entry is never
\* later than the true expiry of the URL it holds, under every interleaving of
\* the resolutions; hence a resolution served from the cache returns a URL
\* with no less than 15 s of true validity left at that moment.
C23_ConservativeExpiry ==
    /\ \A k \in DOMAIN signedUrlCache :
          /\ signedUrlCache[k].url.kind = "signed"
          /\ signedUrlCache[k].expiresAt <= TrueExpiry(signedUrlCache[k].url)
    /\ \A e \in Resolutions :
          /\ Fetched(e) => ev[e].videoUrl.issuedAt >= ev[e].now
          /\ Hit(e) =>
                /\ ev[e].videoUrl = ev[e].cached.url
                /\ ev[e].cached.expiresAt <= TrueExpiry(ev[e].cached.url)
                /\ TrueExpiry(ev[e].videoUrl) - ev[e].now >= SAFETY_MARGIN_MS

\* C23 witness: a URL requested and signed at time 0 is served from the cache
\* at the last millisecond of the window, with 15 001 ms of validity left
C23_Witness ==
    \E e \in Resolutions :
        /\ Hit(e)
        /\ ev[e].now = WindowMs - 1
        /\ ev[e].videoUrl.issuedAt = 0
        /\ TrueExpiry(ev[e].videoUrl) - ev[e].now = SAFETY_MARGIN_MS + 1
        /\ ev[e].pc = "done"

---------------------------------------------------------------------------
(* The fallback and the cache *)

\* The step ends the resolution of update e without a signed URL: with the
\* public URL, with unavailable, or with an error of the request
EndsUnsigned(e) ==
    /\ ev[e].pc \in {"getVideoUrl", "getSignedUrl"}
    /\ ev'[e].pc \notin {"getVideoUrl", "getSignedUrl"}
    /\ ev'[e].videoUrl.kind \in {"public", "none"}

\* The step ends the resolution of update e with the public URL or with
\* unavailable, after a signed-URL request that yielded nothing
EndsInFallback(e) ==
    /\ ev[e].pc = "getSignedUrl"
    /\ ev'[e].pc \in {"sendChatAction", "replyUnavailable"}
    /\ ev'[e].videoUrl.kind \in {"public", "none"}

\* After the step, a resolution of the key of e would be served from the cache
ServedAfter(e) ==
    /\ KeyOf(e) \in DOMAIN signedUrlCache'
    /\ CacheValid(signedUrlCache'[KeyOf(e)], clock')

\* Every URL held in the cache came from a successful signed-URL fetch
C24_OnlySigned ==
    \A k \in DOMAIN signedUrlCache :
        /\ signedUrlCache[k].url.kind = "signed"
        /\ \E e \in Resolutions :
              /\ KeyOf(e) = k
              /\ Fetched(e)
              /\ signedUrlCache[k].url = ev[e].videoUrl

\* A resolution that ends without a signed URL leaves the cache as it was
C24_FrameStep == \A e \in Events : EndsUnsigned(e) => signedUrlCache' = signedUrlCache

\* C24 as stated: a resolution that ends with the public-URL fallback or with
\* unavailable leaves the cache exactly as it was, every URL held in the cache
\* came from a successful signed-URL fetch, and the next resolution of that
\* key tries the signed-URL provider again.
C24_NextAlwaysFetches ==
    /\ []C24_OnlySigned
    /\ [][ /\ C24_FrameStep
           /\ \A e \in Events : EndsInFallback(e) => ~ServedAfter(e) ]_vars

\* C24 amended: the same frame and the same origin of the cached URLs; the
\* next resolution of that key tries the signed-URL provider again unless the
\* cache holds a valid entry for the key, which is then not the entry the
\* resolution found at its start but one that another resolution has fetched
\* and stored meanwhile.
C24_NotCached ==
    /\ []C24_OnlySigned
    /\ [][ /\ C24_FrameStep
           /\ \A e \in Events :
                 (EndsInFallback(e) /\ ServedAfter(e)) =>
                     /\ signedUrlCache'[KeyOf(e)] # ev[e].cached
                     /\ \E f \in Resolutions \ {e} :
                           /\ KeyOf(f) = KeyOf(e)
                           /\ Fetched(f)
                           /\ signedUrlCache'[KeyOf(e)].url = ev[f].videoUrl ]_vars

\* C24 witness: two resolutions of one key missed the cache; one fetched a
\* signed URL, the other fell back to the public URL and delivered it, and the
\* cache holds the signed URL
C24_Witness ==
    \E e \in Resolutions, f \in Resolutions :
        /\ e # f /\ KeyOf(e) = KeyOf(f)
        /\ Fetched(e)
        /\ ev[f].videoUrl.kind = "public"
        /\ ev[f].pc = "done"
        /\ Succeeded(f, "replyWithVideo") # {}
        /\ signedUrlCache[KeyOf(f)].url = ev[e].videoUrl

---------------------------------------------------------------------------
(* Acknowledgment of callbacks *)

\* The acknowledgments of update e
Acks(e) == Calls(e, "answerCbQuery")

\* C25: a callback is acknowledged at most once, with 'Unknown option' when
\* the lookup found nothing and with 'Sending video' otherwise; the
\* acknowledgment is the first call made for the update, before any chat
\* message, URL resolution, video send or edit; and a callback whose handling
\* ran to its end without an error was acknowledged exactly once.
C25_AcknowledgedOnce ==
    \A e \in Callbacks :
        /\ Cardinality(Acks(e)) <= 1
        /\ ev[e].effects # << >> => Acks(e) = {1}
        /\ \A i \in Acks(e) :
              ev[e].effects[i].text =
                 (IF ev[e].option.tag = "null" THEN TXT_UNKNOWN ELSE TXT_ANSWER)
        /\ ev[e].pc \notin {"answerUnknown", "answerSending"} => Cardinality(Acks(e)) = 1
        /\ ev[e].pc = "done" => Acks(e) = {1} /\ ev[e].effects[1].ok
        /\ ev[e].pc \notin {"answerUnknown", "answerSending", "caught"} => ev[e].effects[1].ok

\* C25 witness: one callback answered 'Unknown option' and ended, another
\* answered 'Sending video' and ended with the video delivered
C25_Witness ==
    \E e \in Callbacks, f \in Callbacks :
        /\ ev[e].pc = "done" /\ ev[f].pc = "done"
        /\ ev[e].effects = << Eff("answerCbQuery", TXT_UNKNOWN, TRUE) >>
        /\ ev[f].effects[1] = Eff("answerCbQuery", TXT_ANSWER, TRUE)
        /\ Succeeded(f, "replyWithVideo") # {}
        /\ Cardinality(Acks(f)) = 1

---------------------------------------------------------------------------
(* The webhook front door through the life of the service: with and without *)
(* a token, a callback URL and a secret, requests arriving before startup,  *)
(* during it, in both modes and after stop()                                *)

HandOffEnvs ==
    { Env(token, Undefined, url, Undefined, Undefined, secret, Undefined, Undefined) :
        token \in {Undefined, "123:abc"},
        url \in {Undefined, "https://bot.example/telegram/webhook"},
        secret \in {Undefined, "X"} }

InitHandOff == InitWith(HandOffEnvs)

NextHandOff ==
    \/ Startup
    \/ \E ok \in BOOLEAN : InitDeleteWebhook(ok)
    \/ \E ok \in BOOLEAN : InitLaunch(ok)
    \/ \E ok \in BOOLEAN : InitSetWebhook(ok)
    \/ Stop
    \/ \E ok \in BOOLEAN : StopDeleteWebhook(ok)
    \/ \E hdr \in GateHeaders, u \in StartupUpdates : HandleWebhookUpdate(hdr, u)
    \/ \E e \in Events, ok \in BOOLEAN : ReplyIntro(e, ok)

SpecHandOff == InitHandOff /\ [][NextHandOff]_vars

\* C26, state part: a request is rejected iff its header fails the secret
\* check; a request handed to the bot passed the check, the handle exists, and
\* its answer is {ok: true} once the handling has ended, never {ok: false}; a
\* request that found no handle got {ok: false} and nothing was done for it
C26_HandOffState ==
    \A e \in Requests :
        /\ ev[e].pc = "rejected" <=> Mismatch(e)
        /\ e \in Handled =>
              /\ ~Mismatch(e)
              /\ bot # Null
              /\ ev[e].response \in {"pending", "ok_true"}
              /\ ev[e].pc \in {"done", "caught"} => ev[e].response = "ok_true"
        /\ ev[e].pc = "uninitialized" =>
              /\ ev[e].response = "ok_false"
              /\ ev[e].effects = << >>

\* C26, step part: the handle is never cleared; a request that passes the
\* secret check is handed to the bot iff the handle exists at that moment,
\* whatever the mode and whatever stop() has done, and is answered {ok: false}
\* without a dispatch otherwise
C26_HandOffStep ==
    /\ bot # Null => bot' = bot
    /\ \A e \in Events :
          (Receives(e) /\ ev'[e].via = "webhook" /\ ev'[e].pc # "rejected") =>
              IF bot # Null
              THEN ev'[e].pc \notin {"uninitialized", "rejected"} /\ ev'[e].response # "ok_false"
              ELSE ev'[e].pc = "uninitialized" /\ ev'[e].response = "ok_false"

\* C26: handleWebhookUpdate hands an update to the bot if and only if the
\* secret check passes and the bot handle has been created; before
\* onModuleInit has created the handle it answers {ok: false} and dispatches
\* nothing; the handle is never cleared, so that an authenticated update is
\* dispatched and answered {ok: true} in Polling mode and after stop() too.
C26_HandOff == []C26_HandOffState /\ [][C26_HandOffStep]_vars

\* C26 witness: in Polling mode, stop() has ended the polling loop; one request
\* had arrived before the handle existed and got {ok: false}, a later one is
\* being handled by the command handler
C26_Witness ==
    /\ cfg.useLongPolling
    /\ life.stop = "done" /\ ~life.polling
    /\ \E e \in Requests, f \in Requests :
          /\ e < f
          /\ ev[e].pc = "uninitialized" /\ ev[e].response = "ok_false"
          /\ ev[f].pc = "replyIntro" /\ ev[f].response = "pending"
          /\ ev[f].hdr = cfg.webhookSecret

---------------------------------------------------------------------------
(* Outcomes of a matched callback *)

\* The three outcomes of update e: the video was sent, the 'not available'
\* notice was sent, the failure notice was sent
VideoSent(e)    == Succeeded(e, "replyWithVideo") # {}
NotAvailable(e) == Replies(e, TXT_NOT_AVAILABLE) # {}
FailureNoticed(e) == Replies(e, TXT_FAILED) # {}

\* A successful call with that operation and text precedes position i
Before(e, i, op, text) ==
    \E j \in Succeeded(e, op) : j < i /\ ev[e].effects[j].text = text

\* C27: for a matched callback at most one of the three outcomes occurs (video
\* sent, 'not available' notice, failure notice); at most one attempt is made
\* to edit the status message, on the chat id and message id of the
\* provisional message of that same update, after the outcome is known and
\* with the text of that outcome: the success indicator only after a
\* successful video send, the pending indicator only after the 'not
\* available' notice, the failure indicator only after the failure notice.
C27_OutcomeExclusive ==
    \A e \in Callbacks :
        ev[e].option.tag # "null" =>
            /\ ~(VideoSent(e) /\ NotAvailable(e))
            /\ ~(VideoSent(e) /\ FailureNoticed(e))
            /\ ~(NotAvailable(e) /\ FailureNoticed(e))
            /\ Cardinality(Calls(e, "editMessageText")) <= 1
            /\ \A i \in Calls(e, "editMessageText") :
                  /\ Before(e, i, "reply", TXT_STATUS)
                  /\ ev[e].statusMessage # NoMessage
                  /\ ev[e].effects[i].chat = e
                  /\ ev[e].effects[i].chat = ev[e].statusMessage.chat
                  /\ ev[e].effects[i].msg = ev[e].statusMessage.message_id
                  /\ ev[e].effects[i].text \in {SuccessText(ev[e].option), TXT_EDIT_PENDING, TXT_EDIT_FAILED}
                  /\ ev[e].effects[i].text = SuccessText(ev[e].option) =>
                        \E j \in Succeeded(e, "replyWithVideo") : j < i
                  /\ ev[e].effects[i].text = TXT_EDIT_PENDING =>
                        Before(e, i, "reply", TXT_NOT_AVAILABLE)
                  /\ ev[e].effects[i].text = TXT_EDIT_FAILED =>
                        Before(e, i, "reply", TXT_FAILED)

\* C27 witness: one callback ended with the 'not available' notice and the
\* pending indicator, another with the failure notice and a failed attempt to
\* edit its own status message to the failure indicator
C27_Witness ==
    \E e \in Callbacks, f \in Callbacks :
        /\ e # f
        /\ ev[e].pc = "done" /\ ev[f].pc = "done"
        /\ NotAvailable(e) /\ Edits(e, TXT_EDIT_PENDING) # {}
        /\ FailureNoticed(f) /\ Edits(f, TXT_EDIT_FAILED) # {}
        /\ Failed(f, "editMessageText") # {}
        /\ \A i \in Calls(f, "editMessageText") : ev[f].effects[i].chat = f

=============================================================================
